---------------------------- MODULE Spec2Model ----------------------------
(***************************************************************************)
(* Model of the snapshot container of fast-browser-use (src/dom/tree.rs),  *)
(* of the node model it is built on (src/dom/element.rs), of the scalar    *)
(* escaper (src/dom/yaml.rs) and of the renderer (src/tools/snapshot.rs).  *)
(*                                                                         *)
(* Representation.  Option<T> is a sequence of length 0 (None) or 1        *)
(* (Some(v)).  A Rust String is the sequence of its characters, so the     *)
(* empty string is << >>; where only the identity of a string matters (the *)
(* name of a frame, a selector) a whole word stands as one character.  Vec *)
(* positions are 0-based in the source and 1-based here: element i of a    *)
(* Vec v is v[i + 1].  A reference to a node of a tree is the path to it:  *)
(* the sequence of child positions from the root.  A HashMap is the        *)
(* sequence of its entries in the order this instance of the map iterates  *)
(* them; two maps are equal when they hold the same entries.               *)
(***************************************************************************)
EXTENDS Integers, Sequences, FiniteSets, TLC

(***************************************************************************)
(* Bounds of the model.                                                    *)
(***************************************************************************)
\* An extraction assigns indices from 0..MaxIndex.
MaxIndex == 1
\* A tree has at most MaxItems items (nodes and texts) below its root.
MaxItems == 2
\* At most MaxMutations injectFrame / assembleFrames calls on one container.
MaxMutations == 1

(***************************************************************************)
(* Option<T> and String.                                                   *)
(***************************************************************************)
None == << >>

Some(v) == <<v>>

IsSome(o) == o # None

Unwrap(o) == o[1]

EmptyString == << >>

(***************************************************************************)
(* src/dom/element.rs: AriaNode, AriaChild, BoxInfo.                       *)
(***************************************************************************)
BoxInfoDefault == [visible |-> FALSE, cursor |-> None, rect |-> None]

\* AriaNode::new(role, name): every optional field unset, no children.
AriaNodeNew(role, name) ==
    [role |-> role, name |-> name, index |-> None, children |-> << >>,
     props |-> << >>, box_info |-> BoxInfoDefault,
     checked |-> None, disabled |-> None, expanded |-> None, level |-> None,
     pressed |-> None, selected |-> None, active |-> None]

\* AriaNode::fragment()
Fragment == AriaNodeNew(<<"f", "r", "a", "g", "m", "e", "n", "t">>, EmptyString)

\* AriaNode::with_index
WithIndex(node, index) == [node EXCEPT !.index = Some(index)]

\* AriaNode::with_children
WithChildren(node, children) == [node EXCEPT !.children = children]

\* AriaNode::with_box
WithBox(node, visible, cursor) ==
    [node EXCEPT !.box_info = [visible |-> visible, cursor |-> cursor, rect |-> None]]

\* AriaChild::Text(s) and AriaChild::Node(n)
TextChild(s) == <<"Text", s>>

NodeChild(n) == <<"Node", n>>

IsNodeChild(c) == c[1] = "Node"

ChildNode(c) == c[2]

\* The positions of the Node children of a node, in sequence order.
NodeKids(node) == {i \in 1..Len(node.children) : IsNodeChild(node.children[i])}


(***************************************************************************)
(* src/dom/element.rs: traversal primitives of AriaNode.                   *)
(***************************************************************************)
RECURSIVE find_by_index_children_first(_, _), find_by_index_children_first_from(_, _, _)

find_by_index_children_first_from(node, index, i) ==
    IF i > Len(node.children)
    THEN (IF node.index = Some(index) THEN Some(<< >>) ELSE None)
    ELSE IF IsNodeChild(node.children[i])
         THEN LET found == find_by_index_children_first(ChildNode(node.children[i]), index)
              IN  IF IsSome(found) THEN Some(<<i>> \o Unwrap(found))
                  ELSE find_by_index_children_first_from(node, index, i + 1)
         ELSE find_by_index_children_first_from(node, index, i + 1)

\* find_by_index with the test of the node itself moved after the loop.
find_by_index_children_first(node, index) ==
    find_by_index_children_first_from(node, index, 1)

RECURSIVE find_by_index(_, _), find_by_index_from(_, _, _)

\* The loop of find_by_index over the children from position i on.
find_by_index_from(node, index, i) ==
    IF i > Len(node.children) THEN None
    ELSE IF IsNodeChild(node.children[i])
         THEN LET found == find_by_index(ChildNode(node.children[i]), index)
              IN  IF IsSome(found) THEN Some(<<i>> \o Unwrap(found))
                  ELSE find_by_index_from(node, index, i + 1)
         ELSE find_by_index_from(node, index, i + 1)

\* AriaNode::find_by_index: a reference to the node found (its path), or None.
find_by_index(node, index) ==
    IF node.index = Some(index) THEN Some(<< >>)
    ELSE find_by_index_from(node, index, 1)

RECURSIVE find_by_index_mut(_, _), find_by_index_mut_from(_, _, _)

\* The loop of find_by_index_mut over the children from position i on.
find_by_index_mut_from(node, index, i) ==
    IF i > Len(node.children) THEN None
    ELSE IF IsNodeChild(node.children[i])
         THEN LET found == find_by_index_mut(ChildNode(node.children[i]), index)
              IN  IF IsSome(found) THEN Some(<<i>> \o Unwrap(found))
                  ELSE find_by_index_mut_from(node, index, i + 1)
         ELSE find_by_index_mut_from(node, index, i + 1)

\* AriaNode::find_by_index_mut: a mutable reference to the node found, or None.
find_by_index_mut(node, index) ==
    IF node.index = Some(index) THEN Some(<< >>)
    ELSE find_by_index_mut_from(node, index, 1)

RECURSIVE count_interactive_recursive(_), count_interactive_from(_, _)

\* The loop of count_interactive_recursive over the children from position i on.
count_interactive_from(node, i) ==
    IF i > Len(node.children) THEN 0
    ELSE (IF IsNodeChild(node.children[i])
          THEN count_interactive_recursive(ChildNode(node.children[i]))
          ELSE 0)
         + count_interactive_from(node, i + 1)

\* AriaNode::count_interactive_recursive: what the call adds to the counter.
count_interactive_recursive(node) ==
    (IF IsSome(node.index) THEN 1 ELSE 0) + count_interactive_from(node, 1)

\* AriaNode::count_interactive
count_interactive(node) == 0 + count_interactive_recursive(node)

(***************************************************************************)
(* Dereferencing and writing through a node reference (a path).            *)
(***************************************************************************)
RECURSIVE NodeAt(_, _)

\* The node a reference points to.
NodeAt(node, path) ==
    IF path = << >> THEN node
    ELSE NodeAt(ChildNode(node.children[Head(path)]), Tail(path))

RECURSIVE AssignChildren(_, _, _)

\* The tree after `reference.children = children`.
AssignChildren(node, path, children) ==
    IF path = << >> THEN [node EXCEPT !.children = children]
    ELSE [node EXCEPT !.children[Head(path)] =
              NodeChild(AssignChildren(ChildNode(node.children[Head(path)]),
                                       Tail(path), children))]

RECURSIVE Paths(_)

\* Every node reference of a tree.
Paths(node) ==
    {<< >>} \cup UNION {{<<i>> \o p : p \in Paths(ChildNode(node.children[i]))} :
                           i \in NodeKids(node)}

(***************************************************************************)
(* src/dom/tree.rs: DomTree.                                               *)
(***************************************************************************)
\* struct DomTree
DomTree(root, selectors, iframe_indices) ==
    [root |-> root, selectors |-> selectors, iframe_indices |-> iframe_indices]

\* usize::max on two Option<usize> as find_max_index combines them.
MaxOption(max, child_max) ==
    IF ~IsSome(child_max) THEN max
    ELSE IF IsSome(max)
         THEN Some(IF Unwrap(max) >= Unwrap(child_max) THEN Unwrap(max)
                   ELSE Unwrap(child_max))
         ELSE Some(Unwrap(child_max))

RECURSIVE find_max_index(_), find_max_index_from(_, _, _)

\* The loop of find_max_index over the children from position i on.
find_max_index_from(node, max, i) ==
    IF i > Len(node.children) THEN max
    ELSE IF IsNodeChild(node.children[i])
         THEN find_max_index_from(node,
                  MaxOption(max, find_max_index(ChildNode(node.children[i]))), i + 1)
         ELSE find_max_index_from(node, max, i + 1)

\* DomTree::find_max_index
find_max_index(node) == find_max_index_from(node, node.index, 1)

RECURSIVE collect_iframe_indices(_), collect_iframe_indices_from(_, _)

\* The loop of collect_iframe_indices over the children from position i on.
collect_iframe_indices_from(node, i) ==
    IF i > Len(node.children) THEN << >>
    ELSE (IF IsNodeChild(node.children[i])
          THEN collect_iframe_indices(ChildNode(node.children[i]))
          ELSE << >>)
         \o collect_iframe_indices_from(node, i + 1)

\* DomTree::collect_iframe_indices: what the call pushes onto iframe_indices.
collect_iframe_indices(node) ==
    (IF IsSome(node.index) /\ node.role = <<"i", "f", "r", "a", "m", "e">>
     THEN <<Unwrap(node.index)>> ELSE << >>)
    \o collect_iframe_indices_from(node, 1)

\* Vec::resize(new_len, String::new()) when new_len exceeds the length.
Resize(selectors, new_len) ==
    selectors \o [i \in 1..(new_len - Len(selectors)) |-> EmptyString]

\* DomTree::rebuild_maps
rebuild_maps(tree) ==
    LET max_index == find_max_index(tree.root)
        selectors == IF IsSome(max_index) /\ Len(tree.selectors) <= Unwrap(max_index)
                     THEN Resize(tree.selectors, Unwrap(max_index) + 1)
                     ELSE tree.selectors
    IN  DomTree(tree.root, selectors, collect_iframe_indices(tree.root))

\* DomTree::new
DomTreeNew(root) == rebuild_maps(DomTree(root, << >>, << >>))

\* get_selector without the filter on empty entries.
get_selector_unfiltered(tree, index) ==
    IF index < Len(tree.selectors) THEN Some(tree.selectors[index + 1]) ELSE None

\* DomTree::get_selector
get_selector(tree, index) ==
    IF index < Len(tree.selectors) /\ tree.selectors[index + 1] # EmptyString
    THEN Some(tree.selectors[index + 1])
    ELSE None

RECURSIVE collect_indices(_), collect_indices_from(_, _)

\* The loop of collect_indices over the children from position i on.
collect_indices_from(node, i) ==
    IF i > Len(node.children) THEN << >>
    ELSE (IF IsNodeChild(node.children[i])
          THEN collect_indices(ChildNode(node.children[i]))
          ELSE << >>)
         \o collect_indices_from(node, i + 1)

\* DomTree::collect_indices: what the call pushes onto the vector.
collect_indices(node) ==
    (IF IsSome(node.index) THEN <<Unwrap(node.index)>> ELSE << >>)
    \o collect_indices_from(node, 1)

\* Vec<usize>::sort
Sort(indices) == SortSeq(indices, LAMBDA a, b : a < b)

\* interactive_indices without the sort.
interactive_indices_unsorted(tree) == collect_indices(tree.root)

\* DomTree::interactive_indices
interactive_indices(tree) == Sort(collect_indices(tree.root))

\* DomTree::count_interactive
DomTree_count_interactive(tree) == count_interactive(tree.root)

\* DomTree::find_node_by_index
find_node_by_index(tree, index) == find_by_index(tree.root, index)

\* DomTree::find_node_by_index_mut
find_node_by_index_mut(tree, index) == find_by_index_mut(tree.root, index)

\* The selectors inject_iframe_content pushes: the non-empty ones, in order.
NonEmptySelectors(selectors) == SelectSeq(selectors, LAMBDA s : s # EmptyString)

\* inject_iframe_content extending the node's children instead of replacing them.
inject_iframe_content_appending(tree, iframe_index, iframe_snapshot) ==
    LET iframe_node == find_node_by_index_mut(tree, iframe_index)
        offset == Len(tree.selectors)
    IN  IF IsSome(iframe_node)
        THEN DomTree(
                 AssignChildren(tree.root, Unwrap(iframe_node),
                                NodeAt(tree.root, Unwrap(iframe_node)).children
                                    \o iframe_snapshot.root.children),
                 tree.selectors \o NonEmptySelectors(iframe_snapshot.selectors),
                 tree.iframe_indices \o
                     [i \in 1..Len(iframe_snapshot.iframe_indices) |->
                         iframe_snapshot.iframe_indices[i] + offset])
        ELSE tree

\* inject_iframe_content merging the selectors and the iframe indices outside
\* the test that the node was found.
inject_iframe_content_merging_always(tree, iframe_index, iframe_snapshot) ==
    LET iframe_node == find_node_by_index_mut(tree, iframe_index)
        offset == Len(tree.selectors)
    IN  DomTree(
            IF IsSome(iframe_node)
            THEN AssignChildren(tree.root, Unwrap(iframe_node),
                                iframe_snapshot.root.children)
            ELSE tree.root,
            tree.selectors \o NonEmptySelectors(iframe_snapshot.selectors),
            tree.iframe_indices \o
                [i \in 1..Len(iframe_snapshot.iframe_indices) |->
                    iframe_snapshot.iframe_indices[i] + offset])

\* DomTree::inject_iframe_content
inject_iframe_content(tree, iframe_index, iframe_snapshot) ==
    LET iframe_node == find_node_by_index_mut(tree, iframe_index)
        offset == Len(tree.selectors)
    IN  IF IsSome(iframe_node)
        THEN DomTree(
                 AssignChildren(tree.root, Unwrap(iframe_node),
                                iframe_snapshot.root.children),
                 tree.selectors \o NonEmptySelectors(iframe_snapshot.selectors),
                 tree.iframe_indices \o
                     [i \in 1..Len(iframe_snapshot.iframe_indices) |->
                         iframe_snapshot.iframe_indices[i] + offset])
        ELSE tree

RECURSIVE assemble_from_stopping(_, _, _, _)

\* The loop of assemble_with_iframes ending at the first index the resolver
\* returns nothing for.
assemble_from_stopping(tree, iframe_indices, answers, i) ==
    IF i > Len(iframe_indices) THEN tree
    ELSE IF IsSome(answers[i])
         THEN assemble_from_stopping(
                  inject_iframe_content(tree, iframe_indices[i], Unwrap(answers[i])),
                  iframe_indices, answers, i + 1)
         ELSE tree

RECURSIVE assemble_from(_, _, _, _)

\* The loop of assemble_with_iframes over its copy of the iframe-index list,
\* from position i on; answers[i] is what the resolver returns on call i.
assemble_from(tree, iframe_indices, answers, i) ==
    IF i > Len(iframe_indices) THEN tree
    ELSE assemble_from(
             IF IsSome(answers[i])
             THEN inject_iframe_content(tree, iframe_indices[i], Unwrap(answers[i]))
             ELSE tree,
             iframe_indices, answers, i + 1)

\* DomTree::assemble_with_iframes
assemble_with_iframes(tree, answers) ==
    assemble_from(tree, tree.iframe_indices, answers, 1)

(***************************************************************************)
(* The containers a caller can hold.  A tree is given by its items (nodes  *)
(* and texts, at most MaxItems of them below the root fragment).  A node's *)
(* name is the frame it was extracted from, and the selector of an index   *)
(* is the pair of the frame and the index.  The page extractor, whose      *)
(* output DomTree::from_tab deserialises, hands over a tree whose indices  *)
(* are unique, the selector table parallel to the indices, and the indices *)
(* of the iframe nodes.                                                    *)
(***************************************************************************)
Selector(frame, index) == <<frame, index>>

Roles == {<<"b", "u", "t", "t", "o", "n">>, <<"i", "f", "r", "a", "m", "e">>}

\* A node without children: with_index is applied when an index is given.
BareNodes(frame) ==
    {AriaNodeNew(role, <<frame>>) : role \in Roles}
    \cup {WithIndex(AriaNodeNew(role, <<frame>>), index) :
              role \in Roles, index \in 0..MaxIndex}

\* The same nodes, and the indexed ones also as visible elements (with_box).
BoxedNodes(frame) ==
    BareNodes(frame)
    \cup {WithBox(node, TRUE, None) : node \in {n \in BareNodes(frame) : IsSome(n.index)}}

RECURSIVE Forests(_, _)

\* The child sequences made of exactly n items, the nodes drawn from `nodes`.
Forests(nodes, n) ==
    IF n = 0 THEN {<< >>}
    ELSE {<<TextChild(<<"text">>)>> \o rest : rest \in Forests(nodes, n - 1)}
         \cup UNION {
                {<<NodeChild(WithChildren(node, kids))>> \o rest :
                     node \in nodes,
                     kids \in Forests(nodes, k),
                     rest \in Forests(nodes, n - 1 - k)} :
                k \in 0..(n - 1)}

\* Every root fragment with at most MaxItems items below it.
Roots(nodes) ==
    {WithChildren(Fragment, children) :
         children \in UNION {Forests(nodes, n) : n \in 0..MaxItems}}

\* No index occurs twice in the tree.
UniqueIndices(root) ==
    LET indices == collect_indices(root)
    IN  \A i, j \in 1..Len(indices) : indices[i] = indices[j] => i = j

\* The selector table of an extraction: the selector of every index of the
\* tree, and the empty string for an index no node carries.
ExtractedSelectors(frame, root) ==
    LET indices == collect_indices(root)
        max_index == find_max_index(root)
    IN  [i \in 1..(IF IsSome(max_index) THEN Unwrap(max_index) + 1 ELSE 0) |->
            IF \E j \in 1..Len(indices) : indices[j] = i - 1
            THEN Selector(frame, i - 1)
            ELSE EmptyString]

\* DomTree::from_tab: the DomTree made of the extractor's response.
from_tab(frame, root) ==
    DomTree(root, ExtractedSelectors(frame, root), collect_iframe_indices(root))

\* The containers of one frame: extracted from the page, or built by the
\* constructor from an extracted tree.
Extractions(frame) ==
    LET roots == {root \in Roots(BareNodes(frame)) : UniqueIndices(root)}
    IN  {from_tab(frame, root) : root \in roots}
        \cup {DomTreeNew(root) : root \in roots}

MainExtractions == Extractions("main")

FrameExtractions == Extractions("frame")

\* The containers the constructor builds from any tree.
Constructions == {DomTreeNew(root) : root \in Roots(BareNodes("main"))}

\* The same, from trees that also hold visible elements.
BoxedConstructions == {DomTreeNew(root) : root \in Roots(BoxedNodes("main"))}

(***************************************************************************)
(* The state machine: one container and the calls made on it.              *)
(***************************************************************************)
VARIABLES
    dom,        \* the container (for the input tool: the context holding it)
    prev,       \* the container before the last call
    call,       \* the last call: its name and arguments
    ret,        \* what the last call returned
    mutations   \* the number of injectFrame / assembleFrames calls so far

vars == <<dom, prev, call, ret, mutations>>

Call(op, index, answers) == [op |-> op, index |-> index, answers |-> answers]

\* The elements of a Vec.
Range(seq) == {seq[i] : i \in 1..Len(seq)}

\* The indices a caller passes: those an extraction can show, one beyond, and
\* the entries of the iframe-index list.
CallIndices == 0..(MaxIndex + 1) \cup Range(dom.iframe_indices)

\* What a resolver may answer: nothing, or the container of a child frame.
ResolverAnswers == {None} \cup {Some(frame) : frame \in FrameExtractions}

\* A container as it was built: by from_tab, or by the constructor.
Init ==
    /\ dom \in MainExtractions \cup Constructions
    /\ prev = dom
    /\ call = Call("new", 0, << >>)
    /\ ret = None
    /\ mutations = 0

\* dom.inject_iframe_content(iframe_index, iframe_snapshot)
InjectFrame ==
    /\ mutations < MaxMutations
    /\ \E iframe_index \in CallIndices, iframe_snapshot \in FrameExtractions :
        /\ dom' = inject_iframe_content(dom, iframe_index, iframe_snapshot)
        /\ call' = Call("inject_iframe_content", iframe_index, <<Some(iframe_snapshot)>>)
    /\ prev' = dom
    /\ ret' = None
    /\ mutations' = mutations + 1

\* dom = dom.assemble_with_iframes(resolver)
AssembleFrames ==
    /\ mutations < MaxMutations
    /\ \E answers \in [1..Len(dom.iframe_indices) -> ResolverAnswers] :
        /\ dom' = assemble_with_iframes(dom, answers)
        /\ call' = Call("assemble_with_iframes", 0, answers)
    /\ prev' = dom
    /\ ret' = None
    /\ mutations' = mutations + 1

Next ==
    \/ InjectFrame
    \/ AssembleFrames

Spec == Init /\ [][Next]_vars

(***************************************************************************)
(* The read-only calls, on any container a caller can build.               *)
(***************************************************************************)
QueryInit ==
    /\ dom \in MainExtractions \cup BoxedConstructions
    /\ prev = dom
    /\ call = Call("new", 0, << >>)
    /\ ret = None
    /\ mutations = 0

\* dom.get_selector(index)
LookupSelector ==
    /\ \E index \in 0..Len(dom.selectors) :
        /\ call' = Call("get_selector", index, << >>)
        /\ ret' = get_selector(dom, index)
    /\ prev' = dom
    /\ UNCHANGED <<dom, mutations>>

\* dom.interactive_indices()
InteractiveIndices ==
    /\ call' = Call("interactive_indices", 0, << >>)
    /\ ret' = interactive_indices(dom)
    /\ prev' = dom
    /\ UNCHANGED <<dom, mutations>>

\* dom.find_node_by_index(index)
FindNode ==
    /\ \E index \in CallIndices :
        /\ call' = Call("find_node_by_index", index, << >>)
        /\ ret' = find_node_by_index(dom, index)
    /\ prev' = dom
    /\ UNCHANGED <<dom, mutations>>

QueryNext ==
    \/ LookupSelector
    \/ InteractiveIndices
    \/ FindNode

QuerySpec == QueryInit /\ [][QueryNext]_vars

(***************************************************************************)
(* Vocabulary of the properties.                                           *)
(***************************************************************************)
\* Reference p is reference q or an ancestor of it.
IsPrefix(p, q) == Len(p) <= Len(q) /\ SubSeq(q, 1, Len(p)) = p

\* p is visited no later than q by a depth-first pre-order walk: a node before
\* its children, the children in sequence order.
PreOrderLeq(p, q) ==
    \/ IsPrefix(p, q)
    \/ \E i \in 1..Len(p) :
        /\ i <= Len(q)
        /\ p[i] < q[i]
        /\ \A j \in 1..(i - 1) : p[j] = q[j]

\* The references to the nodes of a tree that carry the index.
Holders(root, index) == {p \in Paths(root) : NodeAt(root, p).index = Some(index)}

\* The first holder in pre-order.
FirstHolder(root, index) ==
    CHOOSE p \in Holders(root, index) :
        \A q \in Holders(root, index) : PreOrderLeq(p, q)

\* The last call was injectFrame(K, child) on a container holding index K.
InjectedAtHolder ==
    /\ call.op = "inject_iframe_content"
    /\ Holders(prev.root, call.index) # {}

\* The injected child container, and the node the injection was aimed at.
InjectedChild == Unwrap(call.answers[1])

InjectTarget == FirstHolder(prev.root, call.index)

\* The fields of a node other than its children.
OwnFields(node) == [node EXCEPT !.children = << >>]

\* The children of a node with every Node child reduced to a marker.
ChildKinds(node) ==
    [i \in 1..Len(node.children) |->
        IF IsNodeChild(node.children[i]) THEN <<"Node">> ELSE node.children[i]]

(***************************************************************************)
(* injectFrame.                                                            *)
(***************************************************************************)
\* C1: after injectFrame(K, child) on a container holding index K,
\* interactiveIndices() is the union of the container's indices before the
\* injection and the child's indices, each shifted by the length the selector
\* table had before the injection.
C1_InjectedIndicesShifted ==
    InjectedAtHolder =>
        Range(interactive_indices(dom)) =
            Range(interactive_indices(prev))
            \cup {i + Len(prev.selectors) : i \in Range(interactive_indices(InjectedChild))}

\* C2: index uniqueness is preserved by assembly: a container whose indices are
\* unique, given child containers whose indices are unique, has unique indices
\* after an injectFrame or assembleFrames call.
C2_IndexUniquenessPreserved ==
    [][UniqueIndices(dom.root) => UniqueIndices(dom'.root)]_vars

\* C3: after injectFrame(K, child) every index shown in the tree resolves to
\* the selector of the node showing it: a spliced-in node whose selector was
\* non-empty in the child resolves, on the parent, to that child selector, and
\* a node the parent had before resolves to the selector it had before.
C3_ShownIndicesResolve ==
    InjectedAtHolder =>
        /\ \A p \in Paths(InjectedChild.root) :
            LET inChild == NodeAt(InjectedChild.root, p)
                spliced == NodeAt(dom.root, InjectTarget \o p)
            IN  (/\ p # << >>
                 /\ IsSome(inChild.index)
                 /\ IsSome(get_selector(InjectedChild, Unwrap(inChild.index))))
                => /\ IsSome(spliced.index)
                   /\ get_selector(dom, Unwrap(spliced.index))
                          = get_selector(InjectedChild, Unwrap(inChild.index))
        /\ \A q \in Paths(prev.root) :
            (/\ ~(IsPrefix(InjectTarget, q) /\ q # InjectTarget)
             /\ IsSome(NodeAt(prev.root, q).index))
            => /\ NodeAt(dom.root, q).index = NodeAt(prev.root, q).index
               /\ get_selector(dom, Unwrap(NodeAt(prev.root, q).index))
                      = get_selector(prev, Unwrap(NodeAt(prev.root, q).index))

\* The parent's nodes keep resolving to their own selectors after an injection:
\* the half of C3 that the code satisfies.
C3_ParentIndicesStillResolve ==
    InjectedAtHolder =>
        \A q \in Paths(prev.root) :
            (/\ ~(IsPrefix(InjectTarget, q) /\ q # InjectTarget)
             /\ IsSome(NodeAt(prev.root, q).index))
            => /\ NodeAt(dom.root, q).index = NodeAt(prev.root, q).index
               /\ get_selector(dom, Unwrap(NodeAt(prev.root, q).index))
                      = get_selector(prev, Unwrap(NodeAt(prev.root, q).index))

\* C4: injectFrame(K, child) on a container holding index K replaces the
\* children of the first node carrying K by the child's root children, in
\* order, and changes neither that node's other fields nor any node outside
\* its subtree.
C4_InjectReplacesChildrenOnly ==
    InjectedAtHolder =>
        /\ InjectTarget \in Paths(dom.root)
        /\ NodeAt(dom.root, InjectTarget).children = InjectedChild.root.children
        /\ OwnFields(NodeAt(dom.root, InjectTarget))
               = OwnFields(NodeAt(prev.root, InjectTarget))
        /\ \A q \in Paths(dom.root) :
               ~IsPrefix(InjectTarget, q) => q \in Paths(prev.root)
        /\ \A q \in Paths(prev.root) :
               ~IsPrefix(InjectTarget, q) =>
                   /\ q \in Paths(dom.root)
                   /\ OwnFields(NodeAt(dom.root, q)) = OwnFields(NodeAt(prev.root, q))
                   /\ ChildKinds(NodeAt(dom.root, q)) = ChildKinds(NodeAt(prev.root, q))

\* An injection replaced the children of a node that had some, by others.
C4_Witness ==
    /\ InjectedAtHolder
    /\ NodeAt(prev.root, InjectTarget).children # << >>
    /\ Len(InjectedChild.root.children) = MaxItems
    /\ NodeAt(dom.root, InjectTarget).children = InjectedChild.root.children
    /\ dom.root # prev.root

\* An injection aimed at an index two nodes carry changed the first of them and
\* left alone the second, which lies outside the first one's subtree.
C4_WitnessDuplicate ==
    /\ InjectedAtHolder
    /\ \E q \in Holders(prev.root, call.index) :
        /\ ~IsPrefix(InjectTarget, q)
        /\ NodeAt(dom.root, q) = NodeAt(prev.root, q)
    /\ NodeAt(dom.root, InjectTarget) # NodeAt(prev.root, InjectTarget)

\* C5: after injectFrame(K, child), every iframe index re-added to the parent's
\* iframe-index list (a child iframe index plus the length the selector table
\* had) is the index of an iframe node that came from the child, so find on it
\* reaches the nested iframe.
C5_ReaddedIframeIndicesResolve ==
    InjectedAtHolder =>
        \A i \in Range(InjectedChild.iframe_indices) :
            LET readded == i + Len(prev.selectors)
                found == find_node_by_index(dom, readded)
            IN  /\ readded \in Range(dom.iframe_indices)
                /\ IsSome(found)
                /\ NodeAt(dom.root, Unwrap(found)).role = <<"i", "f", "r", "a", "m", "e">>
                /\ IsPrefix(InjectTarget, Unwrap(found))
                /\ Unwrap(found) # InjectTarget

\* C6: injectFrame(K, child) on a container where no node carries K changes
\* nothing: tree, selector table and iframe-index list are as before.
C6_InjectMissingIsNoOp ==
    (call.op = "inject_iframe_content" /\ Holders(prev.root, call.index) = {}) =>
        /\ dom.root = prev.root
        /\ dom.selectors = prev.selectors
        /\ dom.iframe_indices = prev.iframe_indices

\* An injection of a child with selectors and iframes missed its target.
C6_Witness ==
    /\ call.op = "inject_iframe_content"
    /\ Holders(prev.root, call.index) = {}
    /\ prev.root.children # << >>
    /\ NonEmptySelectors(InjectedChild.selectors) # << >>
    /\ InjectedChild.iframe_indices # << >>
    /\ dom = prev

(***************************************************************************)
(* assembleFrames.                                                         *)
(***************************************************************************)
\* The last call was assembleFrames; what the resolver answered on call i.
Assembled == call.op = "assemble_with_iframes"

Unresolved == {i \in 1..Len(call.answers) : ~IsSome(call.answers[i])}

RECURSIVE InjectEach(_, _)

\* The container after injecting each <<iframe index, child>> pair in turn.
InjectEach(tree, pairs) ==
    IF pairs = << >> THEN tree
    ELSE InjectEach(inject_iframe_content(tree, Head(pairs)[1], Head(pairs)[2]),
                    Tail(pairs))

\* The iframe indices the resolver resolved, each with the child it returned.
ResolvedPairs ==
    LET asked == [i \in 1..Len(call.answers) |-> <<prev.iframe_indices[i], call.answers[i]>>]
        kept == SelectSeq(asked, LAMBDA pair : IsSome(pair[2]))
    IN  [i \in 1..Len(kept) |-> <<kept[i][1], Unwrap(kept[i][2])>>]

\* C7: assembleFrames skips an iframe index the resolver returns nothing for:
\* the result is what injecting the resolved children alone gives, and it is
\* the input container when nothing is resolved.
C7_AssembleSkipsUnresolved ==
    Assembled =>
        /\ Len(call.answers) = Len(prev.iframe_indices)
        /\ dom = InjectEach(prev, ResolvedPairs)
        /\ (Unresolved = 1..Len(call.answers) => dom = prev)

\* A pass whose resolver failed on the first iframe and resolved a later one,
\* which was then filled.
C7_Witness ==
    /\ Assembled
    /\ 1 \in Unresolved
    /\ \E i \in 1..Len(call.answers) :
        /\ IsSome(call.answers[i])
        /\ Unwrap(call.answers[i]).root.children # << >>
    /\ dom.root # prev.root

\* A pass whose resolver resolved nothing, over a container with an iframe that
\* has children.
C7_WitnessNoneResolved ==
    /\ Assembled
    /\ call.answers # << >>
    /\ Unresolved = 1..Len(call.answers)
    /\ \E p \in Holders(prev.root, prev.iframe_indices[1]) :
           NodeAt(prev.root, p).children # << >>
    /\ dom = prev

(***************************************************************************)
(* The read-only calls.                                                    *)
(***************************************************************************)
\* C8: lookupSelector(i) returns the table entry for i exactly when i is within
\* the table and the entry is not empty, and the same absent value otherwise.
C8_LookupSelector ==
    call.op = "get_selector" =>
        LET within == call.index < Len(dom.selectors)
        IN  /\ IsSome(ret) <=> (within /\ dom.selectors[call.index + 1] # EmptyString)
            /\ IsSome(ret) => Unwrap(ret) = dom.selectors[call.index + 1]
            /\ (~within \/ dom.selectors[call.index + 1] = EmptyString) => ret = None

\* A lookup of an index within the table whose entry is empty, in a table that
\* also has a recorded selector.
C8_Witness ==
    /\ call.op = "get_selector"
    /\ call.index < Len(dom.selectors)
    /\ dom.selectors[call.index + 1] = EmptyString
    /\ NonEmptySelectors(dom.selectors) # << >>
    /\ ret = None

\* A lookup that returned a recorded selector.
C8_WitnessFound ==
    /\ call.op = "get_selector"
    /\ IsSome(ret)

\* C9: interactiveIndices() lists, in ascending order, the index of every node
\* of the tree that has one, once per node, so that its length is
\* countInteractive().
C9_InteractiveIndices ==
    call.op = "interactive_indices" =>
        /\ \A i \in 1..(Len(ret) - 1) : ret[i] <= ret[i + 1]
        /\ \A index \in 0..MaxIndex :
               Cardinality({i \in 1..Len(ret) : ret[i] = index})
                   = Cardinality(Holders(dom.root, index))
        /\ \A i \in 1..Len(ret) : ret[i] \in 0..MaxIndex
        /\ Len(ret) = DomTree_count_interactive(dom)

\* The indices of a tree that shows the larger index first, in document order,
\* on a visible node and an invisible one.
C9_Witness ==
    /\ call.op = "interactive_indices"
    /\ Len(ret) = MaxItems
    /\ collect_indices(dom.root) # ret
    /\ \E p, q \in Paths(dom.root) :
        /\ IsSome(NodeAt(dom.root, p).index) /\ NodeAt(dom.root, p).box_info.visible
        /\ IsSome(NodeAt(dom.root, q).index) /\ ~NodeAt(dom.root, q).box_info.visible

\* C10: find(index) returns the first node in depth-first pre-order that
\* carries the index, and nothing when no node carries it; the mutable variant
\* returns the same node.
C10_FindFirstInPreOrder ==
    call.op = "find_node_by_index" =>
        /\ Holders(dom.root, call.index) = {} => ret = None
        /\ Holders(dom.root, call.index) # {} =>
               /\ IsSome(ret)
               /\ Unwrap(ret) \in Holders(dom.root, call.index)
               /\ \A q \in Holders(dom.root, call.index) : PreOrderLeq(Unwrap(ret), q)
        /\ find_node_by_index_mut(dom, call.index) = ret

\* A search for an index that a node and one of its descendants both carry.
C10_Witness ==
    /\ call.op = "find_node_by_index"
    /\ IsSome(ret)
    /\ \E q \in Holders(dom.root, call.index) :
           q # Unwrap(ret) /\ IsPrefix(Unwrap(ret), q)

\* A search for an index no node carries, in a tree that has indexed nodes.
C10_WitnessAbsent ==
    /\ call.op = "find_node_by_index"
    /\ ret = None
    /\ collect_indices(dom.root) # << >>

(***************************************************************************)
(* Characters.  A character is written as itself ("a", " ", "\n"); the     *)
(* control characters that have no escape are written by their ASCII names: *)
(* "SOH" is U+0001, "BS" is U+0008 and "DEL" is U+007F; the backquote,     *)
(* which a string of this language cannot hold, is written "GRAVE", and    *)
(* "EACUTE" is U+00E9, a letter that UTF-8 encodes in two bytes.           *)
(***************************************************************************)
\* The characters of the model that char::is_whitespace holds of.
WhiteSpace == {" ", "\t", "\n", "\f", "\r"}

\* char::is_whitespace
is_whitespace(c) == c \in WhiteSpace

\* The characters of the model that char::is_control holds of.
ControlChars == {"SOH", "BS", "\t", "\n", "\f", "\r", "DEL"}

\* char::is_control
is_control(c) == c \in ControlChars

RECURSIVE trim_start(_)

\* str::trim_start
trim_start(s) ==
    IF s # << >> /\ is_whitespace(Head(s)) THEN trim_start(Tail(s)) ELSE s

RECURSIVE trim_end(_)

\* str::trim_end
trim_end(s) ==
    IF s # << >> /\ is_whitespace(s[Len(s)])
    THEN trim_end(SubSeq(s, 1, Len(s) - 1))
    ELSE s

\* str::trim
trim(s) == trim_end(trim_start(s))

(***************************************************************************)
(* src/dom/element.rs: get_text_content and count_nodes.                   *)
(***************************************************************************)
RECURSIVE collect_text_unseparated(_, _), collect_text_unseparated_from(_, _, _)

collect_text_unseparated_from(node, buffer, i) ==
    IF i > Len(node.children) THEN buffer
    ELSE collect_text_unseparated_from(
             node,
             IF IsNodeChild(node.children[i])
             THEN collect_text_unseparated(ChildNode(node.children[i]), buffer)
             ELSE buffer \o node.children[i][2],
             i + 1)

\* collect_text without the space pushed after each text.
collect_text_unseparated(node, buffer) ==
    collect_text_unseparated_from(node, buffer, 1)

RECURSIVE collect_text(_, _), collect_text_from(_, _, _)

\* The loop of collect_text over the children from position i on.
collect_text_from(node, buffer, i) ==
    IF i > Len(node.children) THEN buffer
    ELSE collect_text_from(
             node,
             IF IsNodeChild(node.children[i])
             THEN collect_text(ChildNode(node.children[i]), buffer)
             ELSE Append(buffer \o node.children[i][2], " "),
             i + 1)

\* AriaNode::collect_text: the buffer after the call.
collect_text(node, buffer) == collect_text_from(node, buffer, 1)

\* get_text_content returning the buffer as collected.
get_text_content_untrimmed(node) == collect_text(node, EmptyString)

\* AriaNode::get_text_content
get_text_content(node) == trim(collect_text(node, EmptyString))

RECURSIVE count_nodes_with_texts(_), count_nodes_with_texts_from(_, _)

count_nodes_with_texts_from(node, i) ==
    IF i > Len(node.children) THEN 0
    ELSE (IF IsNodeChild(node.children[i])
          THEN count_nodes_with_texts(ChildNode(node.children[i]))
          ELSE 1)
         + count_nodes_with_texts_from(node, i + 1)

\* count_nodes with a Text child counted as one.
count_nodes_with_texts(node) == 1 + count_nodes_with_texts_from(node, 1)

RECURSIVE count_nodes(_), count_nodes_from(_, _)

\* The sum of count_nodes over the children from position i on.
count_nodes_from(node, i) ==
    IF i > Len(node.children) THEN 0
    ELSE (IF IsNodeChild(node.children[i])
          THEN count_nodes(ChildNode(node.children[i]))
          ELSE 0)
         + count_nodes_from(node, i + 1)

\* AriaNode::count_nodes
count_nodes(node) == 1 + count_nodes_from(node, 1)

\* DomTree::count_nodes
DomTree_count_nodes(tree) == count_nodes(tree.root)

(***************************************************************************)
(* The trees whose texts matter: at most MaxTextItems items below the      *)
(* root, the texts with and without whitespace at either end.              *)
(***************************************************************************)
MaxTextItems == 3

Texts ==
    {EmptyString, <<"a">>, <<"b">>, <<" ">>, <<"a", " ">>, <<" ", "b">>,
     <<"\n", "a", " ", "b", "\t">>}

RECURSIVE TextForests(_, _, _)

\* The child sequences made of exactly n items: nodes of `nodes`, texts of `texts`.
TextForests(nodes, texts, n) ==
    IF n = 0 THEN {<< >>}
    ELSE {<<TextChild(text)>> \o rest :
              text \in texts, rest \in TextForests(nodes, texts, n - 1)}
         \cup UNION {
                {<<NodeChild(WithChildren(node, kids))>> \o rest :
                     node \in nodes,
                     kids \in TextForests(nodes, texts, k),
                     rest \in TextForests(nodes, texts, n - 1 - k)} :
                k \in 0..(n - 1)}

TextRoots ==
    {WithChildren(Fragment, children) :
         children \in UNION {TextForests({AriaNodeNew(<<"s", "p", "a", "n">>, EmptyString)},
                                         Texts, n) : n \in 0..MaxTextItems}}

(***************************************************************************)
(* The calls on the nodes of a tree.                                       *)
(***************************************************************************)
ElementInit ==
    /\ dom \in {DomTreeNew(root) : root \in TextRoots}
    /\ prev = dom
    /\ call = Call("new", 0, << >>)
    /\ ret = None
    /\ mutations = 0

\* node.count_nodes(), on the node at `path`; dom.count_nodes() is the call on
\* the root.
CountNodes ==
    /\ \E path \in Paths(dom.root) :
        /\ call' = Call("count_nodes", path, << >>)
        /\ ret' = IF path = << >> THEN DomTree_count_nodes(dom)
                  ELSE count_nodes(NodeAt(dom.root, path))
    /\ prev' = dom
    /\ UNCHANGED <<dom, mutations>>

\* node.get_text_content(), on the node at `path`.
TextContent ==
    /\ \E path \in Paths(dom.root) :
        /\ call' = Call("get_text_content", path, << >>)
        /\ ret' = get_text_content(NodeAt(dom.root, path))
    /\ prev' = dom
    /\ UNCHANGED <<dom, mutations>>

ElementNext ==
    \/ CountNodes
    \/ TextContent

ElementSpec == ElementInit /\ [][ElementNext]_vars

(***************************************************************************)
(* Vocabulary of the properties of the node calls.                         *)
(***************************************************************************)
RECURSIVE SumSeq(_)

SumSeq(numbers) ==
    IF numbers = << >> THEN 0 ELSE Head(numbers) + SumSeq(Tail(numbers))

RECURSIVE Concat(_)

\* The concatenation of a sequence of sequences.
Concat(seqs) == IF seqs = << >> THEN << >> ELSE Head(seqs) \o Concat(Tail(seqs))

RECURSIVE SubtreeTexts(_)

\* The texts of a subtree in depth-first order.
SubtreeTexts(node) ==
    Concat([i \in 1..Len(node.children) |->
               IF IsNodeChild(node.children[i])
               THEN SubtreeTexts(ChildNode(node.children[i]))
               ELSE <<node.children[i][2]>>])

RECURSIVE JoinWith(_, _)

\* The strings joined, `sep` between each two neighbours.
JoinWith(strings, sep) ==
    IF strings = << >> THEN << >>
    ELSE IF Len(strings) = 1 THEN strings[1]
         ELSE strings[1] \o sep \o JoinWith(Tail(strings), sep)

\* t is s without its leading and trailing whitespace.
IsTrimOf(t, s) ==
    /\ t # << >> => ~is_whitespace(t[1]) /\ ~is_whitespace(t[Len(t)])
    /\ \E i \in 1..(Len(s) + 1) :
        /\ i + Len(t) - 1 <= Len(s)
        /\ t = SubSeq(s, i, i + Len(t) - 1)
        /\ \A j \in 1..Len(s) : (j < i \/ j >= i + Len(t)) => is_whitespace(s[j])

\* C11: for every node, countNodes() is 1 plus the sum of countNodes() over
\* its Node children, a Text child adding nothing; so it is the number of
\* nodes of the subtree.
C11_CountNodes ==
    call.op = "count_nodes" =>
        LET node == NodeAt(dom.root, call.index)
        IN  /\ ret = 1 + SumSeq([i \in 1..Len(node.children) |->
                             IF IsNodeChild(node.children[i])
                             THEN count_nodes(ChildNode(node.children[i]))
                             ELSE 0])
            /\ ret = Cardinality(Paths(node))

\* A count on a node that has a Text child, a Node child and a grandchild.
C11_Witness ==
    /\ call.op = "count_nodes"
    /\ LET node == NodeAt(dom.root, call.index)
       IN  /\ \E i \in 1..Len(node.children) : ~IsNodeChild(node.children[i])
           /\ \E i \in NodeKids(node) : ChildNode(node.children[i]).children # << >>
    /\ ret = 2

\* C12: textContent() is the texts of the subtree in depth-first order, one
\* space between each two of them, with the leading and trailing whitespace
\* of the whole removed.
C12_TextContent ==
    call.op = "get_text_content" =>
        IsTrimOf(ret, JoinWith(SubtreeTexts(NodeAt(dom.root, call.index)), <<" ">>))

\* The text of a node whose texts lie at two depths, the first ending in a
\* space and the last followed by whitespace that is trimmed away.
C12_Witness ==
    /\ call.op = "get_text_content"
    /\ LET node == NodeAt(dom.root, call.index)
       IN  /\ Len(node.children) = 2
           /\ node.children[1] = TextChild(<<"a", " ">>)
           /\ IsNodeChild(node.children[2])
           /\ ChildNode(node.children[2]).children = <<TextChild(<<" ", "b">>)>>
    /\ ret = <<"a", " ", " ", " ", "b">>

(***************************************************************************)
(* String primitives of the standard library, as src/dom/yaml.rs and       *)
(* src/tools/snapshot.rs use them.                                         *)
(***************************************************************************)
\* str::starts_with(char), str::starts_with([char; N]) and
\* str::starts_with(char::is_whitespace): `chars` is the set of the characters
\* the pattern matches.
starts_with(s, chars) == s # << >> /\ s[1] \in chars

\* str::ends_with(char)
ends_with(s, chars) == s # << >> /\ s[Len(s)] \in chars

\* str::contains(&str)
contains(s, pattern) ==
    \E i \in 1..(Len(s) - Len(pattern) + 1) :
        SubSeq(s, i, i + Len(pattern) - 1) = pattern

\* str::contains(char)
contains_char(s, chars) == \E i \in 1..Len(s) : s[i] \in chars

UpperCase ==
    <<"A", "B", "C", "D", "E", "F", "G", "H", "I", "J", "K", "L", "M",
      "N", "O", "P", "Q", "R", "S", "T", "U", "V", "W", "X", "Y", "Z">>

LowerCase ==
    <<"a", "b", "c", "d", "e", "f", "g", "h", "i", "j", "k", "l", "m",
      "n", "o", "p", "q", "r", "s", "t", "u", "v", "w", "x", "y", "z">>

\* str::to_lowercase, on ASCII letters.
to_lowercase(s) ==
    [i \in 1..Len(s) |->
        IF \E k \in 1..Len(UpperCase) : UpperCase[k] = s[i]
        THEN LowerCase[CHOOSE k \in 1..Len(UpperCase) : UpperCase[k] = s[i]]
        ELSE s[i]]

Digits == {"0", "1", "2", "3", "4", "5", "6", "7", "8", "9"}

\* Digit+
IsDigits(s) == s # << >> /\ \A i \in 1..Len(s) : s[i] \in Digits

\* Digit+ | Digit+ '.' Digit* | Digit* '.' Digit+
IsMantissa(m) ==
    /\ \A i \in 1..Len(m) : m[i] \in Digits \cup {"."}
    /\ \E i \in 1..Len(m) : m[i] \in Digits
    /\ Cardinality({i \in 1..Len(m) : m[i] = "."}) <= 1

\* 'e' Sign? Digit+
IsExp(e) ==
    /\ starts_with(e, {"e"})
    /\ IsDigits(IF starts_with(Tail(e), {"+", "-"}) THEN Tail(Tail(e)) ELSE Tail(e))

\* str::parse::<f64>().is_ok(): the grammar of f64::from_str, matched
\* without regard to case:  Sign? ( 'inf' | 'infinity' | 'nan' | Number ),
\* Number ::= Mantissa Exp?.
parse_f64_is_ok(s) ==
    LET lower == to_lowercase(s)
        body == IF starts_with(lower, {"+", "-"}) THEN Tail(lower) ELSE lower
    IN  \/ body \in {<<"i", "n", "f">>, <<"n", "a", "n">>,
                     <<"i", "n", "f", "i", "n", "i", "t", "y">>}
        \/ \E k \in 1..Len(body) :
            /\ IsMantissa(SubSeq(body, 1, k))
            /\ k < Len(body) => IsExp(SubSeq(body, k + 1, Len(body)))

(***************************************************************************)
(* src/dom/yaml.rs                                                         *)
(***************************************************************************)
\* The words of the match at yaml.rs:62.
YamlKeywords ==
    {<<"y">>, <<"n">>, <<"y", "e", "s">>, <<"n", "o">>, <<"t", "r", "u", "e">>,
     <<"f", "a", "l", "s", "e">>, <<"o", "n">>, <<"o", "f", "f">>,
     <<"n", "u", "l", "l">>}

\* yaml_string_needs_quotes without the test for " #".
yaml_string_needs_quotes_no_comment(s) ==
    IF s = EmptyString THEN TRUE
    ELSE IF starts_with(s, WhiteSpace) \/ ends_with(s, WhiteSpace) THEN TRUE
    ELSE IF \E i \in 1..Len(s) : is_control(s[i]) THEN TRUE
    ELSE IF starts_with(s, {"-"}) THEN TRUE
    ELSE IF contains(s, <<":", "\n">>) \/ contains(s, <<":", " ">>)
            \/ ends_with(s, {":"}) THEN TRUE
    ELSE IF contains_char(s, {"\n"}) \/ contains_char(s, {"\r"}) THEN TRUE
    ELSE IF starts_with(s, {"&", "*", ",", "?", "!", ">", "|", "@", "\"", "'", "#", "%"})
         THEN TRUE
    ELSE IF contains_char(s, {"\""}) \/ contains_char(s, {"\\"})
            \/ contains_char(s, {"'"}) THEN TRUE
    ELSE IF \E i \in 1..Len(s) : s[i] \in {"{", "}", "GRAVE"} THEN TRUE
    ELSE IF starts_with(s, {"["}) THEN TRUE
    ELSE IF to_lowercase(s) \in YamlKeywords THEN TRUE
    ELSE IF parse_f64_is_ok(s) THEN TRUE
    ELSE FALSE

\* yaml_string_needs_quotes: each test in turn, the first that holds returning true.
yaml_string_needs_quotes(s) ==
    IF s = EmptyString THEN TRUE
    ELSE IF starts_with(s, WhiteSpace) \/ ends_with(s, WhiteSpace) THEN TRUE
    ELSE IF \E i \in 1..Len(s) : is_control(s[i]) THEN TRUE
    ELSE IF starts_with(s, {"-"}) THEN TRUE
    ELSE IF contains(s, <<":", "\n">>) \/ contains(s, <<":", " ">>)
            \/ ends_with(s, {":"}) THEN TRUE
    ELSE IF contains(s, <<" ", "#">>) THEN TRUE
    ELSE IF contains_char(s, {"\n"}) \/ contains_char(s, {"\r"}) THEN TRUE
    ELSE IF starts_with(s, {"&", "*", ",", "?", "!", ">", "|", "@", "\"", "'", "#", "%"})
         THEN TRUE
    ELSE IF contains_char(s, {"\""}) \/ contains_char(s, {"\\"})
            \/ contains_char(s, {"'"}) THEN TRUE
    ELSE IF \E i \in 1..Len(s) : s[i] \in {"{", "}", "GRAVE"} THEN TRUE
    ELSE IF starts_with(s, {"["}) THEN TRUE
    ELSE IF to_lowercase(s) \in YamlKeywords THEN TRUE
    ELSE IF parse_f64_is_ok(s) THEN TRUE
    ELSE FALSE

RECURSIVE replace_from(_, _, _, _, _)

\* str::replace on the characters at the positions lo..hi: the range is
\* halved, so that the depth of the evaluation grows with the logarithm of
\* the length of the string.
replace_from(s, from, to, lo, hi) ==
    IF lo > hi THEN << >>
    ELSE IF lo = hi THEN (IF s[lo] = from THEN to ELSE <<s[lo]>>)
    ELSE LET mid == (lo + hi) \div 2
         IN  replace_from(s, from, to, lo, mid) \o replace_from(s, from, to, mid + 1, hi)

\* str::replace(char, &str)
replace(s, from, to) == replace_from(s, from, to, 1, Len(s))

\* yaml_escape_key_if_needed wrapping the string as it is.
yaml_escape_key_if_needed_undoubled(s) ==
    IF ~yaml_string_needs_quotes(s) THEN s
    ELSE <<"'">> \o s \o <<"'">>

\* yaml_escape_key_if_needed
yaml_escape_key_if_needed(s) ==
    IF ~yaml_string_needs_quotes(s) THEN s
    ELSE <<"'">> \o replace(s, "'", <<"'", "'">>) \o <<"'">>

\* `c as u32`, for the control characters of the model.
CodePoint(c) ==
    CASE c = "SOH" -> 1
      [] c = "BS" -> 8
      [] c = "\t" -> 9
      [] c = "\n" -> 10
      [] c = "\f" -> 12
      [] c = "\r" -> 13
      [] c = "DEL" -> 127

HexDigits ==
    <<"0", "1", "2", "3", "4", "5", "6", "7", "8", "9", "a", "b", "c", "d", "e", "f">>

RECURSIVE LowerHex(_)

\* format!("{:x}", n)
LowerHex(n) ==
    IF n < 16 THEN <<HexDigits[n + 1]>>
    ELSE Append(LowerHex(n \div 16), HexDigits[(n % 16) + 1])

\* format!("{:02x}", n): zero-padded to a width of two.
LowerHex02(n) == IF Len(LowerHex(n)) < 2 THEN <<"0">> \o LowerHex(n) ELSE LowerHex(n)

\* The match of yaml_escape_value_if_needed that leaves a backslash as it is.
escape_value_char_raw_backslash(c) ==
    CASE c = "\"" -> <<"\\", "\"">>
      [] c = "BS" -> <<"\\", "b">>
      [] c = "\f" -> <<"\\", "f">>
      [] c = "\n" -> <<"\\", "n">>
      [] c = "\r" -> <<"\\", "r">>
      [] c = "\t" -> <<"\\", "t">>
      [] OTHER -> IF is_control(c) THEN <<"\\", "x">> \o LowerHex02(CodePoint(c))
                  ELSE <<c>>

\* The match of yaml_escape_value_if_needed: what is pushed for character c.
escape_value_char(c) ==
    CASE c = "\\" -> <<"\\", "\\">>
      [] c = "\"" -> <<"\\", "\"">>
      [] c = "BS" -> <<"\\", "b">>
      [] c = "\f" -> <<"\\", "f">>
      [] c = "\n" -> <<"\\", "n">>
      [] c = "\r" -> <<"\\", "r">>
      [] c = "\t" -> <<"\\", "t">>
      [] OTHER -> IF is_control(c) THEN <<"\\", "x">> \o LowerHex02(CodePoint(c))
                  ELSE <<c>>

RECURSIVE escape_value_from(_, _, _)

\* The loop of yaml_escape_value_if_needed over the characters from i on.
escape_value_from(s, result, i) ==
    IF i > Len(s) THEN result
    ELSE escape_value_from(s, result \o escape_value_char(s[i]), i + 1)

\* yaml_escape_value_if_needed
yaml_escape_value_if_needed(s) ==
    IF ~yaml_string_needs_quotes(s) THEN s
    ELSE Append(escape_value_from(s, <<"\"">>, 1), "\"")

(***************************************************************************)
(* The strings the escaper is given: every string of at most MaxStringLen  *)
(* characters of YamlAlphabet, and the words of YamlWords.                 *)
(***************************************************************************)
MaxStringLen == 2

YamlAlphabet ==
    {"a", "y", "n", "N", "o", "e", "1", ".", "+", "-", " ", "\n", "\r", "\t",
     "SOH", ":", "#", "&", "\"", "'", "[", "\\", "{", "}", "GRAVE"}

YamlWords ==
    {<<"s", "i", "m", "p", "l", "e">>,
     <<"h", "e", "l", "l", "o", "-", "w", "o", "r", "l", "d">>,
     <<"Y", "e", "s">>, <<"T", "R", "U", "E">>, <<"F", "a", "l", "s", "e">>,
     <<"o", "f", "f">>, <<"N", "U", "L", "L">>, <<"n", "u", "l">>,
     <<"y", "e", "s", "s">>, <<"O", "n">>, <<"i", "n", "f">>,
     <<"N", "a", "N">>, <<"-", "i", "n", "f">>,
     <<"+", "I", "n", "f", "i", "n", "i", "t", "y">>, <<"n", "a", "n", "o">>,
     <<"1", "e", "5">>, <<"1", "E", "+", "5">>, <<"1", ".", "5">>,
     <<".", "5">>, <<"5", ".">>, <<"1", "e">>, <<"e", "5">>,
     <<"1", ".", "2", ".", "3">>, <<"+">>, <<"+", "1">>,
     <<"0", "x", "1", "f">>, <<"a", ":", " ", "b">>, <<"a", ":", "b">>,
     <<"a", " ", "#", "b">>, <<"a", "#", "b">>, <<"a", "-", "b">>,
     <<"a", "[", "b">>, <<"a", "&", "b">>, <<"x", " ", "y">>,
     <<"i", "t", "'", "s">>, <<"s", "a", "y", " ", "\"", "h", "i", "\"">>,
     <<"a", "\\", "b">>, <<"a", "\n", "b">>, <<"a", "\t", "b">>,
     <<"a", "\\", "n">>, <<"\\", "x", "0", "1">>, <<"\"", "a", "\"">>,
     <<"a", "DEL">>, <<"BS", "\f">>,
     <<"*", "a">>, <<",", "a">>, <<"?", "a">>, <<"!", "a">>, <<">", "a">>,
     <<"|", "a">>, <<"@", "a">>, <<"%", "a">>,
     <<"a", "*">>, <<"a", ",">>, <<"a", "?">>, <<"a", "!">>, <<"a", ">">>,
     <<"a", "|">>, <<"a", "@">>, <<"a", "%">>}

RECURSIVE Strings(_, _)

\* The strings of exactly n characters of the alphabet.
Strings(alphabet, n) ==
    IF n = 0 THEN {<< >>}
    ELSE {<<c>> \o s : c \in alphabet, s \in Strings(alphabet, n - 1)}

YamlStrings ==
    UNION {Strings(YamlAlphabet, n) : n \in 0..MaxStringLen} \cup YamlWords

(***************************************************************************)
(* The escaper applied to the texts of a tree, as the renderer applies it. *)
(***************************************************************************)
YamlInit ==
    /\ dom \in {DomTreeNew(WithChildren(Fragment, <<TextChild(s)>>)) : s \in YamlStrings}
    /\ prev = dom
    /\ call = Call("new", 0, << >>)
    /\ ret = None
    /\ mutations = 0

\* The texts of the Text children of a node.
ChildTexts(node) ==
    {node.children[i][2] : i \in 1..Len(node.children) \ NodeKids(node)}

\* yaml_string_needs_quotes(s)
NeedsQuotes ==
    /\ \E s \in ChildTexts(dom.root) :
        /\ call' = Call("yaml_string_needs_quotes", s, << >>)
        /\ ret' = yaml_string_needs_quotes(s)
    /\ prev' = dom
    /\ UNCHANGED <<dom, mutations>>

\* yaml_escape_key_if_needed(s)
EscapeKey ==
    /\ \E s \in ChildTexts(dom.root) :
        /\ call' = Call("yaml_escape_key_if_needed", s, << >>)
        /\ ret' = yaml_escape_key_if_needed(s)
    /\ prev' = dom
    /\ UNCHANGED <<dom, mutations>>

\* yaml_escape_value_if_needed(s)
EscapeValue ==
    /\ \E s \in ChildTexts(dom.root) :
        /\ call' = Call("yaml_escape_value_if_needed", s, << >>)
        /\ ret' = yaml_escape_value_if_needed(s)
    /\ prev' = dom
    /\ UNCHANGED <<dom, mutations>>

YamlNext ==
    \/ NeedsQuotes
    \/ EscapeKey
    \/ EscapeValue

YamlSpec == YamlInit /\ [][YamlNext]_vars

(***************************************************************************)
(* Vocabulary of the properties of the escaper.                            *)
(***************************************************************************)
\* s equals the lower-case word w when case is ignored.
EqualsIgnoringCase(s, w) ==
    /\ Len(s) = Len(w)
    /\ \A i \in 1..Len(s) :
           \/ s[i] = w[i]
           \/ \E k \in 1..Len(LowerCase) : LowerCase[k] = w[i] /\ UpperCase[k] = s[i]

\* The triggers of the needs-quoting predicate, one line each.
MeetsTrigger(s) ==
    \/ s = << >>
    \/ s # << >> /\ (s[1] \in WhiteSpace \/ s[Len(s)] \in WhiteSpace)
    \/ \E i \in 1..Len(s) : s[i] \in ControlChars \cup {"\n", "\r"}
    \/ s # << >> /\ s[1] = "-"
    \/ \E i \in 1..(Len(s) - 1) : s[i] = ":" /\ s[i + 1] \in {" ", "\n"}
    \/ s # << >> /\ s[Len(s)] = ":"
    \/ \E i \in 1..(Len(s) - 1) : s[i] = " " /\ s[i + 1] = "#"
    \/ s # << >> /\ s[1] \in {"&", "*", ",", "?", "!", ">", "|", "@", "\"", "'",
                              "#", "%", "["}
    \/ \E i \in 1..Len(s) : s[i] \in {"\"", "\\", "'", "{", "}", "GRAVE"}
    \/ \E w \in {<<"y">>, <<"n">>, <<"y", "e", "s">>, <<"n", "o">>,
                 <<"t", "r", "u", "e">>, <<"f", "a", "l", "s", "e">>, <<"o", "n">>,
                 <<"o", "f", "f">>, <<"n", "u", "l", "l">>} : EqualsIgnoringCase(s, w)
    \/ parse_f64_is_ok(s)

\* The value of a hexadecimal digit.
HexValue(d) == (CHOOSE k \in 1..Len(HexDigits) : HexDigits[k] = d) - 1

RECURSIVE Unescaped(_)

\* The text between the double quotes read back by the escape table: a
\* backslash and the character after it stand for one character, \xHH for
\* the character of that code.
Unescaped(t) ==
    IF t = << >> THEN << >>
    ELSE IF t[1] = "\\" /\ Len(t) >= 4 /\ t[2] = "x"
         THEN <<CHOOSE c \in ControlChars :
                    CodePoint(c) = 16 * HexValue(t[3]) + HexValue(t[4])>>
              \o Unescaped(SubSeq(t, 5, Len(t)))
    ELSE IF t[1] = "\\" /\ Len(t) >= 2
         THEN <<CASE t[2] = "\\" -> "\\"
                  [] t[2] = "\"" -> "\""
                  [] t[2] = "b" -> "BS"
                  [] t[2] = "f" -> "\f"
                  [] t[2] = "n" -> "\n"
                  [] t[2] = "r" -> "\r"
                  [] t[2] = "t" -> "\t"
                  [] OTHER -> "?">>
              \o Unescaped(SubSeq(t, 3, Len(t)))
    ELSE <<t[1]>> \o Unescaped(Tail(t))

\* The string an escaped value stands for: a text in double quotes is read
\* back by the escape table, any other text stands for itself.
UnescapeValue(text) ==
    IF Len(text) >= 2 /\ text[1] = "\"" /\ text[Len(text)] = "\""
    THEN Unescaped(SubSeq(text, 2, Len(text) - 1))
    ELSE text

\* C13: needsQuoting(s) is true exactly when s meets one of the listed
\* triggers, and false for every string that meets none.
C13_NeedsQuoting ==
    call.op = "yaml_string_needs_quotes" => (ret <=> MeetsTrigger(call.index))

\* A word that is quoted only because it equals a keyword when case is ignored.
C13_Witness ==
    /\ call.op = "yaml_string_needs_quotes"
    /\ call.index = <<"F", "a", "l", "s", "e">>
    /\ ret = TRUE

\* A word with a dash inside that meets no trigger.
C13_WitnessPlain ==
    /\ call.op = "yaml_string_needs_quotes"
    /\ call.index = <<"h", "e", "l", "l", "o", "-", "w", "o", "r", "l", "d">>
    /\ ret = FALSE

\* C14: unescaping an escaped value gives the string back, so no other
\* string of the pool of words escapes to the same text.
C14_ValueRoundTrip ==
    call.op = "yaml_escape_value_if_needed" =>
        /\ UnescapeValue(ret) = call.index
        /\ \A s \in YamlWords :
               s # call.index => yaml_escape_value_if_needed(s) # ret

\* The escape of a string that holds a backslash followed by the letter n,
\* whose escape must differ from that of a newline.
C14_Witness ==
    /\ call.op = "yaml_escape_value_if_needed"
    /\ call.index = <<"a", "\\", "n">>
    /\ ret = <<"\"", "a", "\\", "\\", "n", "\"">>

\* The escape of a control character that has no short form.
C14_WitnessHex ==
    /\ call.op = "yaml_escape_value_if_needed"
    /\ call.index = <<"a", "DEL">>
    /\ ret = <<"\"", "a", "\\", "x", "7", "f", "\"">>

\* C15: key escaping returns the string unchanged when needsQuoting is false,
\* and otherwise the string in single quotes with each single quote of the
\* string doubled and every other character as it was.
C15_KeyEscaping ==
    call.op = "yaml_escape_key_if_needed" =>
        LET s == call.index
        IN  /\ ~yaml_string_needs_quotes(s) => ret = s
            /\ yaml_string_needs_quotes(s) =>
                   ret = <<"'">>
                         \o Concat([i \in 1..Len(s) |->
                                       IF s[i] = "'" THEN <<"'", "'">> ELSE <<s[i]>>])
                         \o <<"'">>

\* The key made of a string with a single quote inside.
C15_Witness ==
    /\ call.op = "yaml_escape_key_if_needed"
    /\ call.index = <<"i", "t", "'", "s">>
    /\ ret = <<"'", "i", "t", "'", "'", "s", "'">>

\* The key made of a string that needs no quoting.
C15_WitnessUnquoted ==
    /\ call.op = "yaml_escape_key_if_needed"
    /\ call.index = <<"s", "i", "m", "p", "l", "e">>
    /\ ret = call.index

(***************************************************************************)
(* src/dom/element.rs: the builders and tests the renderer relies on.      *)
(***************************************************************************)
\* AriaChecked::Bool(b) and AriaChecked::Mixed(s)
CheckedBool(b) == <<"Bool", b>>

CheckedMixed(s) == <<"Mixed", s>>

\* AriaPressed::Bool(b) and AriaPressed::Mixed(s)
PressedBool(b) == <<"Bool", b>>

PressedMixed(s) == <<"Mixed", s>>

\* The orders in which a HashMap holding `entries` may iterate them: the
\* order depends on the keys of the instance's hasher and is any of them.
HashMapOrders(entries) ==
    {order \in [1..Cardinality(entries) -> entries] :
         \A i, j \in 1..Cardinality(entries) : order[i] = order[j] => i = j}

\* HashMap::insert: the entries after the call.
HashMapInsert(props, key, value) ==
    {props[i] : i \in {j \in 1..Len(props) : props[j][1] # key}} \cup {<<key, value>>}

\* AriaNode::with_prop: the nodes the call may return, one for each order the
\* map may then iterate in.
with_prop(node, key, value) ==
    {[node EXCEPT !.props = order] :
         order \in HashMapOrders(HashMapInsert(node.props, key, value))}

\* AriaNode::has_pointer_cursor
has_pointer_cursor(node) ==
    IF IsSome(node.box_info.cursor)
    THEN Unwrap(node.box_info.cursor) = <<"p", "o", "i", "n", "t", "e", "r">>
    ELSE FALSE

(***************************************************************************)
(* Formatting of the standard library, as src/tools/snapshot.rs uses it.   *)
(***************************************************************************)
\* char::escape_debug as <str as Debug>::fmt applies it: a single quote is
\* left as it is.
escape_debug(c) ==
    CASE c = "\"" -> <<"\\", "\"">>
      [] c = "\\" -> <<"\\", "\\">>
      [] c = "\n" -> <<"\\", "n">>
      [] c = "\r" -> <<"\\", "r">>
      [] c = "\t" -> <<"\\", "t">>
      [] OTHER -> IF is_control(c)
                  THEN <<"\\", "u">> \o <<"{">> \o LowerHex(CodePoint(c)) \o <<"}">>
                  ELSE <<c>>

RECURSIVE debug_fmt_from(_, _, _)

\* The escapes of the characters at the positions lo..hi, in order: the range
\* is halved, so that the depth of the evaluation grows with the logarithm of
\* the length of the string.
debug_fmt_from(s, lo, hi) ==
    IF lo > hi THEN << >>
    ELSE IF lo = hi THEN escape_debug(s[lo])
    ELSE LET mid == (lo + hi) \div 2
         IN  debug_fmt_from(s, lo, mid) \o debug_fmt_from(s, mid + 1, hi)

\* format!("{:?}", s) of a string
debug_fmt(s) == <<"\"">> \o debug_fmt_from(s, 1, Len(s)) \o <<"\"">>

DecimalDigits == <<"0", "1", "2", "3", "4", "5", "6", "7", "8", "9">>

RECURSIVE display_fmt(_)

\* format!("{}", n) of an unsigned integer
display_fmt(n) ==
    IF n < 10 THEN <<DecimalDigits[n + 1]>>
    ELSE Append(display_fmt(n \div 10), DecimalDigits[(n % 10) + 1])

RECURSIVE join_from(_, _, _, _)

join_from(lines, sep, result, i) ==
    IF i > Len(lines) THEN result
    ELSE join_from(lines, sep, result \o sep \o lines[i], i + 1)

\* join with the separator after every line, the last included.
join_terminated(lines, sep) ==
    IF lines = << >> THEN EmptyString ELSE join_from(lines, sep, lines[1], 2) \o sep

\* [String]::join(sep)
join(lines, sep) ==
    IF lines = << >> THEN EmptyString ELSE join_from(lines, sep, lines[1], 2)

(***************************************************************************)
(* src/tools/snapshot.rs: create_key.  Each operator below is what one     *)
(* statement of create_key pushes onto the key.                            *)
(***************************************************************************)
\* The characters of the model that UTF-8 encodes in two bytes: "EACUTE" is
\* U+00E9.  Every other character of the model is encoded in one.
TwoByteChars == {"EACUTE"}

\* String::len: the length of the string in bytes.
str_len(s) == Len(s) + Cardinality({i \in 1..Len(s) : s[i] \in TwoByteChars})

\* The longest name create_key renders, in bytes.
NameLimit == 900

\* The name, when it is not empty and not longer than NameLimit bytes.
name_part(aria_node) ==
    IF aria_node.name # EmptyString /\ str_len(aria_node.name) <= NameLimit
    THEN <<" ">> \o debug_fmt(aria_node.name)
    ELSE EmptyString

checked_marker(aria_node) ==
    IF IsSome(aria_node.checked)
    THEN CASE Unwrap(aria_node.checked) = CheckedBool(TRUE) -> <<" ", "[", "c", "h", "e", "c", "k", "e", "d", "]">>
           [] Unwrap(aria_node.checked) = CheckedBool(FALSE) -> EmptyString
           [] OTHER -> <<" ", "[", "c", "h", "e", "c", "k", "e", "d", "=", "m", "i", "x", "e", "d", "]">>
    ELSE EmptyString

\* The disabled marker pushed whenever the field is set.
disabled_marker_when_set(aria_node) ==
    IF IsSome(aria_node.disabled) THEN <<" ", "[", "d", "i", "s", "a", "b", "l", "e", "d", "]">> ELSE EmptyString

disabled_marker(aria_node) ==
    IF aria_node.disabled = Some(TRUE) THEN <<" ", "[", "d", "i", "s", "a", "b", "l", "e", "d", "]">> ELSE EmptyString

expanded_marker(aria_node) ==
    IF aria_node.expanded = Some(TRUE) THEN <<" ", "[", "e", "x", "p", "a", "n", "d", "e", "d", "]">> ELSE EmptyString

active_marker(aria_node, render_active) ==
    IF render_active /\ aria_node.active = Some(TRUE) THEN <<" ", "[", "a", "c", "t", "i", "v", "e", "]">> ELSE EmptyString

level_marker(aria_node) ==
    IF IsSome(aria_node.level)
    THEN <<" ", "[", "l", "e", "v", "e", "l", "=">> \o display_fmt(Unwrap(aria_node.level)) \o <<"]">>
    ELSE EmptyString

pressed_marker(aria_node) ==
    IF IsSome(aria_node.pressed)
    THEN CASE Unwrap(aria_node.pressed) = PressedBool(TRUE) -> <<" ", "[", "p", "r", "e", "s", "s", "e", "d", "]">>
           [] Unwrap(aria_node.pressed) = PressedBool(FALSE) -> EmptyString
           [] OTHER -> <<" ", "[", "p", "r", "e", "s", "s", "e", "d", "=", "m", "i", "x", "e", "d", "]">>
    ELSE EmptyString

selected_marker(aria_node) ==
    IF aria_node.selected = Some(TRUE) THEN <<" ", "[", "s", "e", "l", "e", "c", "t", "e", "d", "]">> ELSE EmptyString

\* The index marker and, inside the same `if let`, the cursor marker.
index_marker(aria_node, render_cursor_pointer) ==
    IF IsSome(aria_node.index)
    THEN <<" ", "[", "i", "n", "d", "e", "x", "=">> \o display_fmt(Unwrap(aria_node.index)) \o <<"]">>
         \o (IF render_cursor_pointer /\ has_pointer_cursor(aria_node)
             THEN <<" ", "[", "c", "u", "r", "s", "o", "r", "=", "p", "o", "i", "n", "t", "e", "r", "]">> ELSE EmptyString)
    ELSE EmptyString

\* create_key pushing the index and cursor markers before the state markers.
create_key_index_first(aria_node, render_cursor_pointer, render_active) ==
    aria_node.role
    \o name_part(aria_node)
    \o index_marker(aria_node, render_cursor_pointer)
    \o checked_marker(aria_node)
    \o disabled_marker(aria_node)
    \o expanded_marker(aria_node)
    \o active_marker(aria_node, render_active)
    \o level_marker(aria_node)
    \o pressed_marker(aria_node)
    \o selected_marker(aria_node)

\* create_key
create_key(aria_node, render_cursor_pointer, render_active) ==
    aria_node.role
    \o name_part(aria_node)
    \o checked_marker(aria_node)
    \o disabled_marker(aria_node)
    \o expanded_marker(aria_node)
    \o active_marker(aria_node, render_active)
    \o level_marker(aria_node)
    \o pressed_marker(aria_node)
    \o selected_marker(aria_node)
    \o index_marker(aria_node, render_cursor_pointer)

(***************************************************************************)
(* src/tools/snapshot.rs: the renderer.  `lines` is the Vec<String> the    *)
(* visit functions push onto; each returns the Vec after the call.         *)
(***************************************************************************)
RenderModes == {"Ai", "Expect"}

\* get_single_inlined_text_child without the test that the node has no props.
get_single_inlined_text_child_with_props(aria_node) ==
    IF Len(aria_node.children) = 1 /\ ~IsNodeChild(aria_node.children[1])
    THEN Some(aria_node.children[1][2])
    ELSE None

\* get_single_inlined_text_child
get_single_inlined_text_child(aria_node) ==
    IF Len(aria_node.children) = 1 /\ aria_node.props = << >>
       /\ ~IsNodeChild(aria_node.children[1])
    THEN Some(aria_node.children[1][2])
    ELSE None

\* visit_text
visit_text(text, indent, lines) ==
    LET escaped == yaml_escape_value_if_needed(text)
    IN  IF escaped # EmptyString
        THEN Append(lines, indent \o <<"-", " ", "t", "e", "x", "t", ":", " ">> \o escaped)
        ELSE lines

RECURSIVE visit(_, _, _, _, _), visit_children(_, _, _, _, _, _)

\* The loop of visit over the children from position i on.
visit_children(aria_node, child_indent, render_cursor_pointer, render_active, lines, i) ==
    IF i > Len(aria_node.children) THEN lines
    ELSE visit_children(
             aria_node, child_indent, render_cursor_pointer, render_active,
             IF IsNodeChild(aria_node.children[i])
             THEN visit(ChildNode(aria_node.children[i]), child_indent,
                        render_cursor_pointer, render_active, lines)
             ELSE visit_text(aria_node.children[i][2], child_indent, lines),
             i + 1)

\* visit handing render_cursor_pointer to the children as it received it.
visit_without_claiming(aria_node, indent, render_cursor_pointer, render_active, lines) ==
    LET key == create_key(aria_node, render_cursor_pointer, render_active)
        escaped_key == indent \o <<"-", " ">> \o yaml_escape_key_if_needed(key)
        single_text_child == get_single_inlined_text_child(aria_node)
    IN  IF aria_node.children = << >> /\ aria_node.props = << >>
        THEN Append(lines, escaped_key)
        ELSE IF IsSome(single_text_child)
        THEN Append(lines, escaped_key \o <<":", " ">>
                           \o yaml_escape_value_if_needed(Unwrap(single_text_child)))
        ELSE LET with_props ==
                     Append(lines, escaped_key \o <<":">>)
                     \o [i \in 1..Len(aria_node.props) |->
                            indent \o <<" ", " ", "-", " ", "/">> \o aria_node.props[i][1] \o <<":", " ">>
                            \o yaml_escape_value_if_needed(aria_node.props[i][2])]
                 child_indent == indent \o <<" ", " ">>
             IN  visit_children(aria_node, child_indent, render_cursor_pointer,
                                render_active, with_props, 1)

\* visit
visit(aria_node, indent, render_cursor_pointer, render_active, lines) ==
    LET key == create_key(aria_node, render_cursor_pointer, render_active)
        escaped_key == indent \o <<"-", " ">> \o yaml_escape_key_if_needed(key)
        single_text_child == get_single_inlined_text_child(aria_node)
    IN  IF aria_node.children = << >> /\ aria_node.props = << >>
        THEN Append(lines, escaped_key)
        ELSE IF IsSome(single_text_child)
        THEN Append(lines, escaped_key \o <<":", " ">>
                           \o yaml_escape_value_if_needed(Unwrap(single_text_child)))
        ELSE LET with_props ==
                     Append(lines, escaped_key \o <<":">>)
                     \o [i \in 1..Len(aria_node.props) |->
                            indent \o <<" ", " ", "-", " ", "/">> \o aria_node.props[i][1] \o <<":", " ">>
                            \o yaml_escape_value_if_needed(aria_node.props[i][2])]
                 child_indent == indent \o <<" ", " ">>
                 in_cursor_pointer ==
                     IsSome(aria_node.index) /\ render_cursor_pointer
                     /\ has_pointer_cursor(aria_node)
             IN  visit_children(aria_node, child_indent,
                                render_cursor_pointer /\ ~in_cursor_pointer,
                                render_active, with_props, 1)

RECURSIVE render_from(_, _, _, _, _)

\* The loop of render_aria_tree over nodes_to_render from position i on.
render_from(nodes_to_render, render_cursor_pointer, render_active, lines, i) ==
    IF i > Len(nodes_to_render) THEN lines
    ELSE render_from(
             nodes_to_render, render_cursor_pointer, render_active,
             IF IsNodeChild(nodes_to_render[i])
             THEN visit(ChildNode(nodes_to_render[i]), EmptyString,
                        render_cursor_pointer, render_active, lines)
             ELSE visit_text(nodes_to_render[i][2], EmptyString, lines),
             i + 1)

\* render_single_node
render_single_node(root, mode, previous) ==
    LET render_cursor_pointer == mode = "Ai"
        render_active == mode = "Ai"
    IN  join(visit(root, EmptyString, render_cursor_pointer, render_active, << >>),
             <<"\n">>)

\* render_aria_tree rendering active markers in either mode.
render_aria_tree_active_always(root, mode, previous) ==
    LET render_cursor_pointer == mode = "Ai"
        render_active == TRUE
    IN  IF root.role = <<"f", "r", "a", "g", "m", "e", "n", "t">>
        THEN join(render_from(root.children, render_cursor_pointer, render_active,
                              << >>, 1),
                  <<"\n">>)
        ELSE join(visit(root, EmptyString, render_cursor_pointer, render_active, << >>),
                  <<"\n">>)

\* render_aria_tree rendering a fragment root as it renders any other root.
render_aria_tree_root_rendered(root, mode, previous) ==
    render_single_node(root, mode, previous)

\* render_aria_tree
render_aria_tree(root, mode, previous) ==
    LET render_cursor_pointer == mode = "Ai"
        render_active == mode = "Ai"
    IN  IF root.role = <<"f", "r", "a", "g", "m", "e", "n", "t">>
        THEN join(render_from(root.children, render_cursor_pointer, render_active,
                              << >>, 1),
                  <<"\n">>)
        ELSE render_single_node(root, mode, previous)

(***************************************************************************)
(* The trees the renderer is given: at most MaxRenderItems items, the      *)
(* nodes with and without an index, a pointer cursor, the active flag and  *)
(* props, and fragments below the root.                                    *)
(***************************************************************************)
MaxRenderItems == 2

PointerButton ==
    WithBox(WithIndex(AriaNodeNew(<<"b", "u", "t", "t", "o", "n">>, <<"O", "K">>), 0), TRUE, Some(<<"p", "o", "i", "n", "t", "e", "r">>))

Generic == AriaNodeNew(<<"g", "e", "n", "e", "r", "i", "c">>, EmptyString)

\* A node with two props: the map of each may iterate them in either order.
TwoPropNodes ==
    UNION {with_prop(node, <<"a", "l", "t">>, <<"a">>) :
               node \in with_prop(AriaNodeNew(<<"l", "i", "n", "k">>, EmptyString), <<"u", "r", "l">>, <<"u">>)}

RenderNodes ==
    {PointerButton,
     [PointerButton EXCEPT !.active = Some(TRUE)],
     [WithBox(Generic, TRUE, Some(<<"p", "o", "i", "n", "t", "e", "r">>)) EXCEPT !.active = Some(FALSE)],
     Generic,
     Fragment}
    \cup TwoPropNodes

RenderTexts == {<<"h", "i">>, <<"a", ":", " ", "b">>}

RenderForests(n) == TextForests(RenderNodes, RenderTexts, n)

\* The roots: a fragment, or a single node of another role.
RenderRoots ==
    {WithChildren(Fragment, children) :
         children \in UNION {RenderForests(n) : n \in 0..MaxRenderItems}}
    \cup {WithChildren(node, children) :
              node \in RenderNodes \ {Fragment},
              children \in UNION {RenderForests(n) : n \in 0..(MaxRenderItems - 1)}}

RECURSIVE Instances(_), ChildrenInstances(_)

ChildrenInstances(children) ==
    IF children = << >> THEN {<< >>}
    ELSE {<<child>> \o rest :
              child \in (IF IsNodeChild(Head(children))
                         THEN {NodeChild(n) : n \in Instances(ChildNode(Head(children)))}
                         ELSE {Head(children)}),
              rest \in ChildrenInstances(Tail(children))}

\* The trees that hold what `node` holds: each map of each node is a map of
\* the same entries, iterating them in any order.
Instances(node) ==
    {[node EXCEPT !.props = order, !.children = children] :
         order \in HashMapOrders(Range(node.props)),
         children \in ChildrenInstances(node.children)}

(***************************************************************************)
(* Rendering the tree of a container.                                      *)
(***************************************************************************)
RenderInit ==
    /\ dom \in {DomTreeNew(root) : root \in RenderRoots}
    /\ prev = dom
    /\ call = Call("new", "", << >>)
    /\ ret = None
    /\ mutations = 0

\* render_aria_tree(&dom.root, mode, None)
Render ==
    /\ \E mode \in RenderModes :
        /\ call' = Call("render_aria_tree", mode, << >>)
        /\ ret' = render_aria_tree(dom.root, mode, None)
    /\ prev' = dom
    /\ UNCHANGED <<dom, mutations>>

\* The same page extracted again (DomTree::from_tab deserialises the tree
\* anew), or the same tree built again: the container holds an equal tree
\* whose maps are new instances.
Rebuild ==
    /\ dom' \in {DomTreeNew(root) : root \in Instances(dom.root)}
    /\ UNCHANGED <<prev, call, ret, mutations>>

RenderNext ==
    \/ Render
    \/ Rebuild

RenderSpec == RenderInit /\ [][RenderNext]_vars

(***************************************************************************)
(* Rendering single nodes that carry every combination of the state        *)
(* fields.                                                                 *)
(***************************************************************************)
ClickMe == <<"C", "l", "i", "c", "k", " ", "m", "e">>

Pointer == <<"p", "o", "i", "n", "t", "e", "r">>

Mixed == <<"m", "i", "x", "e", "d">>

\* A button with the given fields.
MarkerNode(name, checked, disabled, expanded, active, level, pressed, selected, index, cursor) ==
    [AriaNodeNew(<<"b", "u", "t", "t", "o", "n">>, name) EXCEPT
         !.checked = checked, !.disabled = disabled, !.expanded = expanded,
         !.active = active, !.level = level, !.pressed = pressed,
         !.selected = selected, !.index = index,
         !.box_info = [visible |-> TRUE, cursor |-> cursor, rect |-> None]]

\* Every value of every state field, on a named, active, indexed button with a
\* pointer cursor.
StateNodes ==
    {MarkerNode(ClickMe, checked, disabled, expanded, Some(TRUE), level, pressed,
                selected, Some(0), Some(Pointer)) :
         checked \in {None, Some(CheckedBool(TRUE)), Some(CheckedBool(FALSE)),
                      Some(CheckedMixed(Mixed))},
         disabled \in {None, Some(TRUE), Some(FALSE)},
         expanded \in {None, Some(TRUE), Some(FALSE)},
         level \in {None, Some(0), Some(12)},
         pressed \in {None, Some(PressedBool(TRUE)), Some(PressedBool(FALSE)),
                      Some(PressedMixed(Mixed))},
         selected \in {None, Some(TRUE), Some(FALSE)}}

\* Every subset of the parts of a key: each part present or absent.
PartNodes ==
    {MarkerNode(name, checked, disabled, expanded, active, level, pressed,
                selected, index, cursor) :
         name \in {EmptyString, ClickMe},
         checked \in {None, Some(CheckedBool(TRUE))},
         disabled \in {None, Some(TRUE)},
         expanded \in {None, Some(TRUE)},
         active \in {None, Some(TRUE)},
         level \in {None, Some(12)},
         pressed \in {None, Some(PressedMixed(Mixed))},
         selected \in {None, Some(TRUE)},
         index \in {None, Some(0)},
         cursor \in {None, Some(Pointer)}}

MarkerNodes == StateNodes \cup PartNodes

KeyInit ==
    /\ dom \in {DomTreeNew(WithChildren(Fragment, <<NodeChild(node)>>)) :
                    node \in MarkerNodes}
    /\ prev = dom
    /\ call = Call("new", "", << >>)
    /\ ret = None
    /\ mutations = 0

KeyNext == Render

KeySpec == KeyInit /\ [][KeyNext]_vars

(***************************************************************************)
(* Vocabulary of the properties of the renderer.                           *)
(***************************************************************************)
RECURSIVE AriaNodeEq(_, _)

\* a == b as #[derive(PartialEq)] defines it on AriaNode: field by field, the
\* props as maps, the children in order.
AriaNodeEq(a, b) ==
    /\ a.role = b.role /\ a.name = b.name /\ a.index = b.index
    /\ Range(a.props) = Range(b.props)
    /\ a.box_info = b.box_info
    /\ a.checked = b.checked /\ a.disabled = b.disabled /\ a.expanded = b.expanded
    /\ a.level = b.level /\ a.pressed = b.pressed /\ a.selected = b.selected
    /\ a.active = b.active
    /\ Len(a.children) = Len(b.children)
    /\ \A i \in 1..Len(a.children) :
           /\ IsNodeChild(a.children[i]) = IsNodeChild(b.children[i])
           /\ IF IsNodeChild(a.children[i])
              THEN AriaNodeEq(ChildNode(a.children[i]), ChildNode(b.children[i]))
              ELSE a.children[i] = b.children[i]

\* The first position at which the pattern occurs in s, 0 when it does not.
Position(s, pattern) ==
    IF contains(s, pattern)
    THEN CHOOSE i \in 1..(Len(s) - Len(pattern) + 1) :
             /\ SubSeq(s, i, i + Len(pattern) - 1) = pattern
             /\ \A j \in 1..(i - 1) : SubSeq(s, j, j + Len(pattern) - 1) # pattern
    ELSE 0

\* How many times the pattern occurs in s.
Occurrences(s, pattern) ==
    Cardinality({i \in 1..(Len(s) - Len(pattern) + 1) :
                     SubSeq(s, i, i + Len(pattern) - 1) = pattern})

\* How many lines of s start in column 0 with "- ".
TopLevelItems(s) ==
    Cardinality({i \in 1..(Len(s) - 1) :
                     /\ SubSeq(s, i, i + 1) = <<"-", " ">>
                     /\ (i = 1 \/ s[i - 1] = "\n")})

\* The markers of a key, in the order the key is said to list them.
KeyMarkers ==
    <<<<" ", "[", "c", "h", "e", "c", "k", "e", "d">>, <<" ", "[", "d", "i", "s", "a", "b", "l", "e", "d", "]">>, <<" ", "[", "e", "x", "p", "a", "n", "d", "e", "d", "]">>, <<" ", "[", "a", "c", "t", "i", "v", "e", "]">>, <<" ", "[", "l", "e", "v", "e", "l", "=">>,
      <<" ", "[", "p", "r", "e", "s", "s", "e", "d">>, <<" ", "[", "s", "e", "l", "e", "c", "t", "e", "d", "]">>, <<" ", "[", "i", "n", "d", "e", "x", "=">>, <<" ", "[", "c", "u", "r", "s", "o", "r", "=", "p", "o", "i", "n", "t", "e", "r", "]">>>>

\* The node below the root of the tree that was rendered.
KeyNode == ChildNode(prev.root.children[1])

RECURSIVE Cleared(_)

\* The tree with every active flag and every cursor value cleared.
Cleared(node) ==
    [node EXCEPT !.active = None,
                 !.box_info = [node.box_info EXCEPT !.cursor = None],
                 !.children = [i \in 1..Len(node.children) |->
                                  IF IsNodeChild(node.children[i])
                                  THEN NodeChild(Cleared(ChildNode(node.children[i])))
                                  ELSE node.children[i]]]

\* The references to the fragment nodes below the root.
NestedFragments(root) ==
    {p \in Paths(root) : p # << >> /\ NodeAt(root, p).role = <<"f", "r", "a", "g", "m", "e", "n", "t">>}

\* C16: rendering is deterministic and free of side effects: when the tree
\* rendered is the tree rendered before and the mode is the same, the output
\* is the same, prop lines included, and rendering leaves the tree as it was.
C16_RenderDeterministic ==
    [][(/\ Render
        /\ call.op = "render_aria_tree"
        /\ call'.index = call.index
        /\ AriaNodeEq(prev.root, dom.root))
       => (ret' = ret /\ dom' = dom)]_vars

\* C17: the key lists role, quoted name and then the markers checked,
\* disabled, expanded, active, level, pressed, selected, index and
\* cursor=pointer in that order, on one line.
C17_KeyOrder ==
    call.op = "render_aria_tree" =>
        LET start == IF ret[3] = "'" THEN 4 ELSE 3
            after_role == start + Len(KeyNode.role)
            quoted == <<"\"">> \o KeyNode.name \o <<"\"">>
            after_name == IF KeyNode.name = EmptyString THEN after_role
                          ELSE after_role + 1 + Len(quoted)
        IN  /\ SubSeq(ret, 1, 2) = <<"-", " ">>
            /\ SubSeq(ret, start, after_role - 1) = KeyNode.role
            /\ KeyNode.name # EmptyString =>
                   SubSeq(ret, after_role, after_name - 1) = <<" ">> \o quoted
            /\ LET at == [i \in 1..Len(KeyMarkers) |-> Position(ret, KeyMarkers[i])]
               IN  \A i \in 1..Len(KeyMarkers) :
                       at[i] > 0 =>
                           /\ at[i] >= after_name
                           /\ \A j \in (i + 1)..Len(KeyMarkers) :
                                  at[j] > 0 => at[i] < at[j]
            /\ ~contains_char(ret, {"\n"})

\* The button of the claim, rendered in AI mode.
C17_Witness ==
    /\ call.op = "render_aria_tree"
    /\ call.index = "Ai"
    /\ KeyNode = WithBox(WithIndex(AriaNodeNew(<<"b", "u", "t", "t", "o", "n">>, <<"C", "l", "i", "c", "k", " ", "m", "e">>), 0),
                         TRUE, Some(<<"p", "o", "i", "n", "t", "e", "r">>))
    /\ ret = <<"-", " ", "'", "b", "u", "t", "t", "o", "n", " ", "\"", "C", "l", "i", "c", "k", " ", "m", "e", "\"", " ", "[", "i", "n", "d", "e", "x", "=", "0", "]", " ", "[", "c", "u", "r", "s", "o", "r", "=", "p", "o", "i", "n", "t", "e", "r", "]", "'">>

\* A key that carries all nine markers.
C17_WitnessAllMarkers ==
    /\ call.op = "render_aria_tree"
    /\ \A i \in 1..Len(KeyMarkers) : Position(ret, KeyMarkers[i]) > 0

\* C18: the state markers follow the field values: [checked] for true,
\* [checked=mixed] for mixed, none for false or unset, likewise pressed;
\* [disabled], [expanded] and [selected] only for true; [level=N] whenever
\* the level is set.
C18_StateMarkers ==
    call.op = "render_aria_tree" =>
        /\ contains(ret, <<" ", "[", "c", "h", "e", "c", "k", "e", "d", "]">>) <=> KeyNode.checked = Some(CheckedBool(TRUE))
        /\ contains(ret, <<" ", "[", "c", "h", "e", "c", "k", "e", "d", "=", "m", "i", "x", "e", "d", "]">>) <=>
               (IsSome(KeyNode.checked) /\ Unwrap(KeyNode.checked)[1] = "Mixed")
        /\ KeyNode.checked \in {None, Some(CheckedBool(FALSE))} =>
               ~contains(ret, <<"[", "c", "h", "e", "c", "k", "e", "d">>)
        /\ contains(ret, <<" ", "[", "p", "r", "e", "s", "s", "e", "d", "]">>) <=> KeyNode.pressed = Some(PressedBool(TRUE))
        /\ contains(ret, <<" ", "[", "p", "r", "e", "s", "s", "e", "d", "=", "m", "i", "x", "e", "d", "]">>) <=>
               (IsSome(KeyNode.pressed) /\ Unwrap(KeyNode.pressed)[1] = "Mixed")
        /\ KeyNode.pressed \in {None, Some(PressedBool(FALSE))} =>
               ~contains(ret, <<"[", "p", "r", "e", "s", "s", "e", "d">>)
        /\ contains(ret, <<" ", "[", "d", "i", "s", "a", "b", "l", "e", "d", "]">>) <=> KeyNode.disabled = Some(TRUE)
        /\ contains(ret, <<" ", "[", "e", "x", "p", "a", "n", "d", "e", "d", "]">>) <=> KeyNode.expanded = Some(TRUE)
        /\ contains(ret, <<" ", "[", "s", "e", "l", "e", "c", "t", "e", "d", "]">>) <=> KeyNode.selected = Some(TRUE)
        /\ contains(ret, <<" ", "[", "l", "e", "v", "e", "l", "=", "0", "]">>) <=> KeyNode.level = Some(0)
        /\ contains(ret, <<" ", "[", "l", "e", "v", "e", "l", "=", "1", "2", "]">>) <=> KeyNode.level = Some(12)
        /\ contains(ret, <<"[", "l", "e", "v", "e", "l">>) <=> IsSome(KeyNode.level)

\* A checkbox-like node with checked mixed, disabled false, expanded true,
\* pressed false, selected unset and level 0.
C18_Witness ==
    /\ call.op = "render_aria_tree"
    /\ IsSome(KeyNode.checked) /\ Unwrap(KeyNode.checked)[1] = "Mixed"
    /\ KeyNode.disabled = Some(FALSE)
    /\ KeyNode.expanded = Some(TRUE)
    /\ KeyNode.pressed = Some(PressedBool(FALSE))
    /\ KeyNode.selected = None
    /\ KeyNode.level = Some(0)
    /\ contains(ret, <<" ", "[", "c", "h", "e", "c", "k", "e", "d", "=", "m", "i", "x", "e", "d", "]", " ", "[", "e", "x", "p", "a", "n", "d", "e", "d", "]">>)

\* C19: the Expect-mode output is the AI-mode output of the tree with its
\* active flags and cursor values cleared, and holds neither marker.
C19_ExpectIsAiCleared ==
    (call.op = "render_aria_tree" /\ call.index = "Expect") =>
        /\ ret = render_aria_tree(Cleared(prev.root), "Ai", None)
        /\ ~contains(ret, <<"[", "a", "c", "t", "i", "v", "e", "]">>)
        /\ ~contains(ret, <<"[", "c", "u", "r", "s", "o", "r", "=", "p", "o", "i", "n", "t", "e", "r", "]">>)

\* An Expect rendering of a tree whose AI rendering holds both markers.
C19_Witness ==
    /\ call.op = "render_aria_tree"
    /\ call.index = "Expect"
    /\ contains(render_aria_tree(prev.root, "Ai", None), <<"[", "a", "c", "t", "i", "v", "e", "]">>)
    /\ contains(render_aria_tree(prev.root, "Ai", None), <<"[", "c", "u", "r", "s", "o", "r", "=", "p", "o", "i", "n", "t", "e", "r", "]">>)
    /\ \E p \in Paths(prev.root) : Len(p) = 2

\* C20: a node whose role is "fragment" is never rendered as an item of its
\* own, wherever it occurs in the tree: the output has no line for it.
C20_FragmentsNeverRendered ==
    call.op = "render_aria_tree" => ~contains(ret, <<"-", " ", "f", "r", "a", "g", "m", "e", "n", "t">>)

\* C20 as amended: a fragment root has no line of its own and its children
\* are the items of indentation level 0; every fragment below the root is
\* rendered as an item.
C20_OnlyRootFragmentSkipped ==
    (call.op = "render_aria_tree" /\ prev.root.role = <<"f", "r", "a", "g", "m", "e", "n", "t">>) =>
        /\ Occurrences(ret, <<"-", " ", "f", "r", "a", "g", "m", "e", "n", "t">>) = Cardinality(NestedFragments(prev.root))
        /\ TopLevelItems(ret) = Len(prev.root.children)

\* A rendering of a fragment root that holds a fragment with a child.
C20_Witness ==
    /\ call.op = "render_aria_tree"
    /\ prev.root.role = <<"f", "r", "a", "g", "m", "e", "n", "t">>
    /\ \E p \in NestedFragments(prev.root) : NodeAt(prev.root, p).children # << >>
    /\ contains(ret, <<"-", " ", "f", "r", "a", "g", "m", "e", "n", "t", ":">>)

\* C21: rendering a fragment root that has no children yields exactly the
\* empty string, in either mode.
C21_EmptyFragmentRendersEmpty ==
    (call.op = "render_aria_tree" /\ prev.root = Fragment) => ret = EmptyString

\* An empty fragment rendered in Expect mode.
C21_Witness ==
    /\ call.op = "render_aria_tree"
    /\ call.index = "Expect"
    /\ prev.root.role = <<"f", "r", "a", "g", "m", "e", "n", "t">>
    /\ prev.root.children = << >>
    /\ ret = EmptyString

\* The same in AI mode.
C21_WitnessAi ==
    /\ call.op = "render_aria_tree"
    /\ call.index = "Ai"
    /\ prev.root = Fragment
    /\ ret = EmptyString

(***************************************************************************)
(* src/dom/element.rs: aria_equals.                                        *)
(***************************************************************************)
\* HashMap::get
HashMapGet(props, key) ==
    IF \E i \in 1..Len(props) : props[i][1] = key
    THEN Some(props[CHOOSE i \in 1..Len(props) : props[i][1] = key][2])
    ELSE None

RECURSIVE props_equal_from(_, _, _)

\* The loop of aria_equals over the entries of self.props from position i on:
\* false at the first entry that other.props does not hold.
props_equal_from(self, other, i) ==
    IF i > Len(self.props) THEN TRUE
    ELSE IF HashMapGet(other.props, self.props[i][1]) # Some(self.props[i][2]) THEN FALSE
    ELSE props_equal_from(self, other, i + 1)

\* aria_equals comparing the cursor values instead of the pointer-cursor flags.
aria_equals_comparing_cursors(self, other) ==
    IF self.role # other.role \/ self.name # other.name THEN FALSE
    ELSE IF \/ self.checked # other.checked
            \/ self.disabled # other.disabled
            \/ self.expanded # other.expanded
            \/ self.level # other.level
            \/ self.pressed # other.pressed
            \/ self.selected # other.selected
         THEN FALSE
    ELSE IF self.box_info.cursor # other.box_info.cursor THEN FALSE
    ELSE IF Len(self.props) # Len(other.props) THEN FALSE
    ELSE props_equal_from(self, other, 1)

\* AriaNode::aria_equals
aria_equals(self, other) ==
    IF self.role # other.role \/ self.name # other.name THEN FALSE
    ELSE IF \/ self.checked # other.checked
            \/ self.disabled # other.disabled
            \/ self.expanded # other.expanded
            \/ self.level # other.level
            \/ self.pressed # other.pressed
            \/ self.selected # other.selected
         THEN FALSE
    ELSE IF has_pointer_cursor(self) # has_pointer_cursor(other) THEN FALSE
    ELSE IF Len(self.props) # Len(other.props) THEN FALSE
    ELSE props_equal_from(self, other, 1)

(***************************************************************************)
(* The nodes the differ is given: the button of test_aria_equals with two  *)
(* props, and the nodes that differ from it in one field or in two.        *)
(***************************************************************************)
\* AriaNode::new("button", "Click").with_disabled(false).with_box(true, Some("pointer"))
DiffBase ==
    [WithBox(AriaNodeNew(<<"b", "u", "t", "t", "o", "n">>, <<"C", "l", "i", "c", "k">>), TRUE, Some(Pointer))
        EXCEPT !.disabled = Some(FALSE),
               !.props = <<<<<<"u", "r", "l">>, <<"u">>>>, <<<<"a", "l", "t">>, <<"a">>>>>>]

\* The values a field takes besides that of DiffBase.
FieldChanges ==
    {<<"role", <<"l", "i", "n", "k">>>>,
     <<"name", <<"C", "l", "a", "c", "k">>>>,
     <<"name", EmptyString>>,
     <<"checked", Some(CheckedBool(TRUE))>>,
     <<"checked", Some(CheckedBool(FALSE))>>,
     <<"checked", Some(CheckedMixed(Mixed))>>,
     <<"disabled", None>>,
     <<"disabled", Some(TRUE)>>,
     <<"expanded", Some(TRUE)>>,
     <<"expanded", Some(FALSE)>>,
     <<"level", Some(1)>>,
     <<"level", Some(2)>>,
     <<"pressed", Some(PressedBool(TRUE))>>,
     <<"pressed", Some(PressedMixed(Mixed))>>,
     <<"selected", Some(TRUE)>>,
     <<"selected", Some(FALSE)>>,
     <<"cursor", None>>,
     <<"cursor", Some(<<"d", "e", "f", "a", "u", "l", "t">>)>>,
     <<"props", << >>>>,
     <<"props", <<<<<<"u", "r", "l">>, <<"u">>>>>>>>,
     <<"props", <<<<<<"a", "l", "t">>, <<"a">>>>, <<<<"u", "r", "l">>, <<"u">>>>>>>>,
     <<"props", <<<<<<"u", "r", "l">>, <<"u">>>>, <<<<"a", "l", "t">>, <<"b">>>>>>>>,
     <<"props", <<<<<<"u", "r", "l">>, <<"u">>>>, <<<<"s", "r", "c">>, <<"a">>>>>>>>,
     <<"rect", Some([x |-> 0, y |-> 0, width |-> 10, height |-> 20])>>,
     <<"visible", FALSE>>,
     <<"active", Some(TRUE)>>,
     <<"index", Some(0)>>,
     <<"children", <<TextChild(<<"h", "i">>)>>>>}

\* The node with one field assigned.
Changed(node, change) ==
    CASE change[1] = "role" -> [node EXCEPT !.role = change[2]]
      [] change[1] = "name" -> [node EXCEPT !.name = change[2]]
      [] change[1] = "checked" -> [node EXCEPT !.checked = change[2]]
      [] change[1] = "disabled" -> [node EXCEPT !.disabled = change[2]]
      [] change[1] = "expanded" -> [node EXCEPT !.expanded = change[2]]
      [] change[1] = "level" -> [node EXCEPT !.level = change[2]]
      [] change[1] = "pressed" -> [node EXCEPT !.pressed = change[2]]
      [] change[1] = "selected" -> [node EXCEPT !.selected = change[2]]
      [] change[1] = "cursor" -> [node EXCEPT !.box_info.cursor = change[2]]
      [] change[1] = "props" -> [node EXCEPT !.props = change[2]]
      [] change[1] = "rect" -> [node EXCEPT !.box_info.rect = change[2]]
      [] change[1] = "visible" -> [node EXCEPT !.box_info.visible = change[2]]
      [] change[1] = "active" -> [node EXCEPT !.active = change[2]]
      [] change[1] = "index" -> [node EXCEPT !.index = change[2]]
      [] change[1] = "children" -> [node EXCEPT !.children = change[2]]

\* DiffBase and the nodes one change away from it.
OneChangeNodes == {DiffBase} \cup {Changed(DiffBase, change) : change \in FieldChanges}

\* The nodes at most two changes away from DiffBase.
TwoChangeNodes ==
    OneChangeNodes \cup {Changed(node, change) : node \in OneChangeNodes, change \in FieldChanges}

DiffInit ==
    /\ dom \in {DomTreeNew(WithChildren(Fragment, <<NodeChild(self), NodeChild(other)>>)) :
                    self \in OneChangeNodes, other \in TwoChangeNodes}
    /\ prev = dom
    /\ call = Call("new", << >>, << >>)
    /\ ret = None
    /\ mutations = 0

\* self.aria_equals(other), on two nodes of the tree; call.answers holds the
\* reference to `other`.
AriaEquals ==
    /\ \E self \in Paths(dom.root) \ {<< >>}, other \in Paths(dom.root) \ {<< >>} :
        /\ call' = Call("aria_equals", self, other)
        /\ ret' = aria_equals(NodeAt(dom.root, self), NodeAt(dom.root, other))
    /\ prev' = dom
    /\ UNCHANGED <<dom, mutations>>

DiffNext == AriaEquals

DiffSpec == DiffInit /\ [][DiffNext]_vars

(***************************************************************************)
(* Vocabulary of the properties of the differ.                             *)
(***************************************************************************)
\* The receiver and the argument of the last aria_equals call.
DiffSelf == NodeAt(dom.root, call.index)

DiffOther == NodeAt(dom.root, call.answers)

\* The keys of a prop mapping, and the value of a key.
PropKeys(props) == {props[i][1] : i \in 1..Len(props)}

PropValue(props, key) == props[CHOOSE i \in 1..Len(props) : props[i][1] = key][2]

\* The node with the fields the differ is said to ignore set to fixed values.
WithoutIgnored(node) ==
    [node EXCEPT !.box_info.rect = None, !.box_info.visible = FALSE,
                 !.active = None, !.index = None, !.children = << >>,
                 !.props = << >>, !.box_info.cursor = None]

\* C22: aria_equals is true exactly when role, name, checked, disabled,
\* expanded, level, pressed and selected are equal, the pointer-cursor flags
\* are equal and the prop mappings have the same keys with the same values;
\* so nodes that differ only in rect, visibility, active, index or children
\* are equal, and nodes that differ in disabled are not.
C22_AriaEquals ==
    call.op = "aria_equals" =>
        LET a == DiffSelf
            b == DiffOther
            same_props ==
                /\ PropKeys(a.props) = PropKeys(b.props)
                /\ \A key \in PropKeys(a.props) :
                       PropValue(a.props, key) = PropValue(b.props, key)
        IN  /\ ret <=> /\ a.role = b.role
                       /\ a.name = b.name
                       /\ a.checked = b.checked
                       /\ a.disabled = b.disabled
                       /\ a.expanded = b.expanded
                       /\ a.level = b.level
                       /\ a.pressed = b.pressed
                       /\ a.selected = b.selected
                       /\ (a.box_info.cursor = Some(Pointer)) <=> (b.box_info.cursor = Some(Pointer))
                       /\ same_props
            /\ (/\ WithoutIgnored(a) = WithoutIgnored(b)
                /\ a.props = b.props
                /\ a.box_info.cursor = b.box_info.cursor) => ret
            /\ a.disabled # b.disabled => ~ret

\* Two nodes that differ in rect and in active only, reported equal.
C22_Witness ==
    /\ call.op = "aria_equals"
    /\ DiffSelf.box_info.rect # DiffOther.box_info.rect
    /\ DiffSelf.active # DiffOther.active
    /\ [DiffSelf EXCEPT !.box_info.rect = None, !.active = None]
         = [DiffOther EXCEPT !.box_info.rect = None, !.active = None]
    /\ ret = TRUE

\* The nodes of test_aria_equals, which differ in disabled only: unequal.
C22_WitnessDisabled ==
    /\ call.op = "aria_equals"
    /\ DiffSelf.disabled = Some(FALSE)
    /\ DiffOther = [DiffSelf EXCEPT !.disabled = Some(TRUE)]
    /\ ret = FALSE

\* Two nodes whose prop maps hold the same entries and iterate them in
\* different orders, reported equal.
C22_WitnessPropOrder ==
    /\ call.op = "aria_equals"
    /\ DiffSelf.props # DiffOther.props
    /\ Len(DiffSelf.props) = 2
    /\ ret = TRUE

(***************************************************************************)
(* src/dom/tree.rs: assemble_with_iframes, with the calls it makes to the  *)
(* resolver.  A pass is the container it returns and the arguments of the  *)
(* resolver calls in the order they were made.                             *)
(***************************************************************************)
Pass(tree, asked) == [tree |-> tree, asked |-> asked]

RECURSIVE assemble_pass_stopping_from(_, _, _, _, _)

assemble_pass_stopping_from(tree, iframe_indices, answers, asked, i) ==
    IF i > Len(iframe_indices) THEN Pass(tree, asked)
    ELSE IF IsSome(answers[i])
         THEN assemble_pass_stopping_from(
                  inject_iframe_content(tree, iframe_indices[i], Unwrap(answers[i])),
                  iframe_indices, answers, Append(asked, iframe_indices[i]), i + 1)
         ELSE Pass(tree, Append(asked, iframe_indices[i]))

\* The pass ending at the first index the resolver returns nothing for.
assemble_pass_stopping(tree, answers) ==
    assemble_pass_stopping_from(tree, tree.iframe_indices, answers, << >>, 1)

RECURSIVE assemble_pass_from(_, _, _, _, _)

\* The loop of assemble_with_iframes over its copy of the iframe-index list,
\* from position i on: each turn calls get_iframe_snapshot(iframe_index),
\* which returns answers[i], and injects what it returned.
assemble_pass_from(tree, iframe_indices, answers, asked, i) ==
    IF i > Len(iframe_indices) THEN Pass(tree, asked)
    ELSE assemble_pass_from(
             IF IsSome(answers[i])
             THEN inject_iframe_content(tree, iframe_indices[i], Unwrap(answers[i]))
             ELSE tree,
             iframe_indices, answers, Append(asked, iframe_indices[i]), i + 1)

\* DomTree::assemble_with_iframes, with its resolver calls.
assemble_pass(tree, answers) ==
    assemble_pass_from(tree, tree.iframe_indices, answers, << >>, 1)

\* dom = dom.assemble_with_iframes(resolver); ret is the sequence of the
\* indices the resolver was called with.
AssemblePass ==
    /\ mutations < MaxMutations
    /\ \E answers \in [1..Len(dom.iframe_indices) -> ResolverAnswers] :
        /\ dom' = assemble_pass(dom, answers).tree
        /\ ret' = assemble_pass(dom, answers).asked
        /\ call' = Call("assemble_with_iframes", 0, answers)
    /\ prev' = dom
    /\ mutations' = mutations + 1

AssembleNext == AssemblePass

AssembleSpec == Init /\ [][AssembleNext]_vars

\* C23: assembleFrames asks the resolver exactly once for each entry of the
\* iframe-index list as it stood when the pass began, in list order, and
\* never for an index an injection appended during the pass.
C23_ResolverAskedPerEntry ==
    Assembled =>
        /\ ret = prev.iframe_indices
        /\ Len(ret) = Len(call.answers)

\* A pass during which an injection appended an iframe index that the
\* resolver was not asked for.
C23_Witness ==
    /\ Assembled
    /\ Len(dom.iframe_indices) > Len(prev.iframe_indices)
    /\ \E i \in 1..Len(dom.iframe_indices) : dom.iframe_indices[i] \notin Range(ret)
    /\ ret # << >>

\* A pass over two entries, the resolver returning nothing for the first.
C23_WitnessUnresolvedFirst ==
    /\ Assembled
    /\ Len(ret) = 2
    /\ ~IsSome(call.answers[1])
    /\ IsSome(call.answers[2])

\* The parent's own iframe nodes before the pass: the holder of each entry
\* of the iframe-index list.
OwnIframe(i) == FirstHolder(prev.root, prev.iframe_indices[i])

\* The parent before the pass is an extraction with several iframes, none
\* inside another.
SeveralIframes ==
    /\ UniqueIndices(prev.root)
    /\ Len(prev.iframe_indices) >= 2
    /\ \A i, j \in 1..Len(prev.iframe_indices) :
           i # j => ~IsPrefix(OwnIframe(i), OwnIframe(j))

\* C24: during assembleFrames over a parent with several iframes, each
\* resolved child is spliced into the node that carried that iframe index
\* before the pass began: after the pass that node holds the child's root
\* children, and no injection landed on a spliced-in node.
C24_InjectionsLandOnOwnIframes ==
    (Assembled /\ SeveralIframes) =>
        \A i \in 1..Len(call.answers) :
            IsSome(call.answers[i]) =>
                NodeAt(dom.root, OwnIframe(i)).children
                    = Unwrap(call.answers[i]).root.children

(***************************************************************************)
(* Rendering trees with pointer cursors at several depths: chains of up to *)
(* MaxCursorDepth nodes, each with or without an index and a pointer       *)
(* cursor, and with or without a sibling that follows its child.           *)
(***************************************************************************)
MaxCursorDepth == 3

Button == AriaNodeNew(<<"b", "u", "t", "t", "o", "n">>, EmptyString)

CursorNodes ==
    {Button,
     WithIndex(Button, 0),
     WithBox(Button, TRUE, Some(Pointer)),
     WithBox(WithIndex(Button, 0), TRUE, Some(Pointer))}

RECURSIVE CursorTrees(_)

\* The trees of depth at most d.
CursorTrees(d) ==
    IF d = 0 THEN {}
    ELSE CursorNodes
         \cup {WithChildren(node, <<NodeChild(child)>>) :
                   node \in CursorNodes, child \in CursorTrees(d - 1)}
         \cup {WithChildren(node, <<NodeChild(child),
                                    NodeChild(WithBox(WithIndex(Button, 1), TRUE, Some(Pointer)))>>) :
                   node \in CursorNodes, child \in CursorTrees(d - 1)}

CursorInit ==
    /\ dom \in {DomTreeNew(WithChildren(Fragment, <<NodeChild(tree)>>)) :
                    tree \in CursorTrees(MaxCursorDepth)}
               \cup {DomTreeNew(tree) : tree \in CursorTrees(MaxCursorDepth)}
    /\ prev = dom
    /\ call = Call("new", "", << >>)
    /\ ret = None
    /\ mutations = 0

CursorNext == Render

CursorSpec == CursorInit /\ [][CursorNext]_vars

(***************************************************************************)
(* Vocabulary of the properties of the rendered lines.                     *)
(***************************************************************************)
\* The positions of the newline characters of a text.
Breaks(text) == {i \in 1..Len(text) : text[i] = "\n"}

\* The position of the k-th newline; 0 for k = 0 and one past the end for the
\* one after the last.
BreakAt(text, k) ==
    IF k = 0 THEN 0
    ELSE IF k > Cardinality(Breaks(text)) THEN Len(text) + 1
    ELSE CHOOSE b \in Breaks(text) : Cardinality({c \in Breaks(text) : c < b}) = k - 1

\* The lines of a text: what lies between two neighbouring newlines.
SplitLines(text) ==
    [k \in 1..(Cardinality(Breaks(text)) + 1) |->
        SubSeq(text, BreakAt(text, k - 1) + 1, BreakAt(text, k) - 1)]

\* The lines of the output; the empty output has none.
OutputLines == IF ret = EmptyString THEN << >> ELSE SplitLines(ret)

RECURSIVE LineCount(_)

\* The number of lines of a node: its key line, and when it is not collapsed
\* one line for each prop and the lines of its children, a text being one.
LineCount(node) ==
    IF node.children = << >> /\ node.props = << >> THEN 1
    ELSE IF Len(node.children) = 1 /\ node.props = << >> /\ ~IsNodeChild(node.children[1])
    THEN 1
    ELSE 1 + Len(node.props)
         + SumSeq([i \in 1..Len(node.children) |->
                      IF IsNodeChild(node.children[i])
                      THEN LineCount(ChildNode(node.children[i])) ELSE 1])

\* The number of lines of the children before position i.
LinesBefore(children, i) ==
    SumSeq([j \in 1..(i - 1) |->
               IF IsNodeChild(children[j]) THEN LineCount(ChildNode(children[j])) ELSE 1])

RECURSIVE KeyLineFrom(_, _, _)

\* The number of the key line of the node at `path` below `node`, whose own
\* key line has the number `first`.
KeyLineFrom(node, path, first) ==
    IF path = << >> THEN first
    ELSE KeyLineFrom(ChildNode(node.children[Head(path)]), Tail(path),
                     first + 1 + Len(node.props) + LinesBefore(node.children, Head(path)))

\* The root rendered is a fragment, which has no line.
FragmentRoot == prev.root.role = <<"f", "r", "a", "g", "m", "e", "n", "t">>

\* The references to the nodes that have a key line.
RenderedPaths == IF FragmentRoot THEN Paths(prev.root) \ {<< >>} ELSE Paths(prev.root)

\* The number of the key line of a rendered node.
KeyLine(path) ==
    IF FragmentRoot
    THEN KeyLineFrom(ChildNode(prev.root.children[Head(path)]), Tail(path),
                     1 + LinesBefore(prev.root.children, Head(path)))
    ELSE KeyLineFrom(prev.root, path, 1)

CursorMarker == <<"[", "c", "u", "r", "s", "o", "r", "=", "p", "o", "i", "n", "t", "e", "r", "]">>

\* The key line of the node carries [cursor=pointer].
Marked(path) == contains(OutputLines[KeyLine(path)], CursorMarker)

\* The node has an index and a pointer cursor.
IndexedPointer(path) ==
    LET node == NodeAt(prev.root, path)
    IN  IsSome(node.index) /\ node.box_info.cursor = Some(Pointer)

\* p is a rendered node above q.
RenderedAbove(p, q) == p \in RenderedPaths /\ p # q /\ IsPrefix(p, q)

\* C25: in AI mode no descendant of a node rendered with [cursor=pointer]
\* renders the marker, so that on every path from the root the marker is on
\* the first node that has an index and a pointer cursor, and on no other.
C25_CursorPointerClaimed ==
    (call.op = "render_aria_tree" /\ call.index = "Ai") =>
        /\ Len(OutputLines) = IF FragmentRoot
                               THEN LinesBefore(prev.root.children, Len(prev.root.children) + 1)
                               ELSE LineCount(prev.root)
        /\ \A p \in RenderedPaths :
            /\ Marked(p) => \A q \in RenderedPaths : RenderedAbove(p, q) => ~Marked(q)
            /\ Marked(p) <=> /\ IndexedPointer(p)
                             /\ \A a \in RenderedPaths : RenderedAbove(a, p) => ~IndexedPointer(a)

\* An AI rendering of a chain of three nodes, the first and the third with
\* an index and a pointer cursor, followed by a sibling with both: the first
\* and the sibling carry the marker, the third does not.
C25_Witness ==
    /\ call.op = "render_aria_tree"
    /\ call.index = "Ai"
    /\ FragmentRoot
    /\ <<1, 1, 1>> \in RenderedPaths
    /\ IndexedPointer(<<1>>) /\ ~IndexedPointer(<<1, 1>>) /\ IndexedPointer(<<1, 1, 1>>)
    /\ Marked(<<1>>) /\ ~Marked(<<1, 1, 1>>)

\* A pointer cursor without an index above an indexed pointer node: the
\* lower node carries the marker.
C25_WitnessUnindexedAbove ==
    /\ call.op = "render_aria_tree"
    /\ call.index = "Ai"
    /\ <<1, 1>> \in RenderedPaths
    /\ NodeAt(prev.root, <<1>>).box_info.cursor = Some(Pointer)
    /\ ~IsSome(NodeAt(prev.root, <<1>>).index)
    /\ Marked(<<1, 1>>)

(***************************************************************************)
(* Rendering nodes with every mix of props and children: a node of each    *)
(* kind over at most MaxChildren children, each a text or a node that is a *)
(* leaf, holds one text, holds props, or holds a node.                     *)
(***************************************************************************)
MaxChildren == 2

\* A link with one prop, whose value needs quotes.
OnePropLink ==
    [AriaNodeNew(<<"l", "i", "n", "k">>, <<"G", "o">>) EXCEPT
         !.props = <<<<<<"u", "r", "l">>, <<"a", ":", " ", "b">>>>>>]

LayoutItems ==
    {TextChild(text) : text \in RenderTexts}
    \cup {NodeChild(PointerButton),
          NodeChild(WithChildren(Generic, <<TextChild(<<"h", "i">>)>>)),
          NodeChild(OnePropLink),
          NodeChild(WithChildren(Generic, <<NodeChild(PointerButton)>>))}

RECURSIVE LayoutChildren(_)

\* The child sequences of exactly n items.
LayoutChildren(n) ==
    IF n = 0 THEN {<< >>}
    ELSE {<<item>> \o rest : item \in LayoutItems, rest \in LayoutChildren(n - 1)}

LayoutNodes ==
    {WithChildren(node, children) :
         node \in {Generic, PointerButton} \cup TwoPropNodes,
         children \in UNION {LayoutChildren(n) : n \in 0..MaxChildren}}

LayoutInit ==
    /\ dom \in {DomTreeNew(WithChildren(Fragment, <<NodeChild(node)>>)) : node \in LayoutNodes}
               \cup {DomTreeNew(WithChildren(Fragment, <<TextChild(<<"h", "i">>), NodeChild(node)>>)) :
                         node \in LayoutNodes}
               \cup {DomTreeNew(node) : node \in LayoutNodes}
    /\ prev = dom
    /\ call = Call("new", "", << >>)
    /\ ret = None
    /\ mutations = 0

LayoutNext == Render

LayoutSpec == LayoutInit /\ [][LayoutNext]_vars

(***************************************************************************)
(* Vocabulary of the properties of the layout.                             *)
(***************************************************************************)
\* n spaces.
Spaces(n) == [i \in 1..n |-> " "]

\* The nesting depth of a rendered node: the children of a fragment root,
\* and a root of another role, are at depth 0.
Depth(path) == IF FragmentRoot THEN Len(path) - 1 ELSE Len(path)

\* The key lines a node at `path` may have: the indentation, "- " and the
\* escaped key, with or without the cursor marker.
KeyLines(path) ==
    {Spaces(2 * Depth(path)) \o <<"-", " ">>
     \o yaml_escape_key_if_needed(create_key(NodeAt(prev.root, path), cursor, call.index = "Ai")) :
         cursor \in BOOLEAN}

\* The line of child i of the node at `path`, a text.
TextLine(path, i) ==
    LET node == NodeAt(prev.root, path)
    IN  OutputLines[KeyLine(path) + 1 + Len(node.props) + LinesBefore(node.children, i)]

\* C26: a node with no children and no props is its escaped key line alone;
\* a node with no props whose only child is a Text is the one line
\* "<key>: <escaped text>"; every other node is "<key>:", then one level
\* deeper one line "- /<propName>: <escapedValue>" per prop, then its
\* children in sequence order.
C26_LeafCollapse ==
    call.op = "render_aria_tree" =>
        \A p \in RenderedPaths :
            LET node == NodeAt(prev.root, p)
                line == OutputLines[KeyLine(p)]
                deeper == Spaces(2 * (Depth(p) + 1))
            IN  IF node.children = << >> /\ node.props = << >>
                THEN line \in KeyLines(p)
                ELSE IF node.props = << >> /\ Len(node.children) = 1
                        /\ ~IsNodeChild(node.children[1])
                THEN line \in {key \o <<":", " ">> \o yaml_escape_value_if_needed(node.children[1][2]) :
                                   key \in KeyLines(p)}
                ELSE /\ line \in {Append(key, ":") : key \in KeyLines(p)}
                     /\ {OutputLines[KeyLine(p) + i] : i \in 1..Len(node.props)}
                          = {deeper \o <<"-", " ", "/">> \o node.props[i][1] \o <<":", " ">>
                             \o yaml_escape_value_if_needed(node.props[i][2]) : i \in 1..Len(node.props)}
                     /\ \A i \in 1..Len(node.children) :
                            IF IsNodeChild(node.children[i])
                            THEN KeyLine(Append(p, i))
                                   = KeyLine(p) + 1 + Len(node.props) + LinesBefore(node.children, i)
                                 /\ \E key \in KeyLines(Append(p, i)) :
                                        SubSeq(OutputLines[KeyLine(Append(p, i))], 1, Len(key)) = key
                            ELSE TextLine(p, i)
                                   = deeper \o <<"-", " ", "t", "e", "x", "t", ":", " ">>
                                     \o yaml_escape_value_if_needed(node.children[i][2])

\* A node with two props and two children, a text and then a node: five
\* lines, the props first.
C26_Witness ==
    /\ call.op = "render_aria_tree"
    /\ FragmentRoot
    /\ LET node == NodeAt(prev.root, <<1>>)
       IN  /\ Len(node.props) = 2
           /\ Len(node.children) = 2
           /\ ~IsNodeChild(node.children[1])
           /\ node.children[2] = NodeChild(PointerButton)
    /\ Len(OutputLines) = 5
    /\ OutputLines[1] = <<"-", " ", "l", "i", "n", "k", ":">>
    /\ OutputLines[4] = <<" ", " ", "-", " ", "t", "e", "x", "t", ":", " ", "h", "i">>

\* A node whose only child is a text that needs quotes, on one line.
C26_WitnessInline ==
    /\ call.op = "render_aria_tree"
    /\ ret = <<"-", " ", "g", "e", "n", "e", "r", "i", "c", ":", " ", "\"", "a", ":", " ", "b", "\"">>

\* A leaf: the key line alone.
C26_WitnessLeaf ==
    /\ call.op = "render_aria_tree"
    /\ call.index = "Expect"
    /\ ret = <<"-", " ", "'", "b", "u", "t", "t", "o", "n", " ", "\"", "O", "K", "\"", " ", "[", "i", "n", "d", "e", "x", "=", "0", "]", "'">>

\* The line begins with exactly 2 * d spaces followed by "- ".
IndentedItem(line, d) ==
    /\ Len(line) >= 2 * d + 2
    /\ SubSeq(line, 1, 2 * d + 2) = Spaces(2 * d) \o <<"-", " ">>

\* The number of lines the renderer emits for the tree: one for each item
\* that is not collapsed into its parent's line, and one for each prop.
EmittedLines ==
    IF FragmentRoot
    THEN LinesBefore(prev.root.children, Len(prev.root.children) + 1)
    ELSE LineCount(prev.root)

\* The node at `path` is rendered on more than one line.
Expanded(path) == LineCount(NodeAt(prev.root, path)) > 1

\* C27: every line of an item at nesting depth d begins with exactly 2 * d
\* spaces followed by "- ", the children of the root fragment being at depth
\* 0; the output is the emitted lines with one newline between each two and
\* none after the last.
C27_Indentation ==
    call.op = "render_aria_tree" =>
        /\ \A p \in RenderedPaths :
            LET node == NodeAt(prev.root, p)
            IN  /\ IndentedItem(OutputLines[KeyLine(p)], Depth(p))
                /\ Expanded(p) =>
                       /\ \A i \in 1..Len(node.props) :
                              IndentedItem(OutputLines[KeyLine(p) + i], Depth(p) + 1)
                       /\ \A i \in 1..Len(node.children) :
                              ~IsNodeChild(node.children[i]) =>
                                  IndentedItem(TextLine(p, i), Depth(p) + 1)
        /\ FragmentRoot =>
               \A i \in 1..Len(prev.root.children) :
                   ~IsNodeChild(prev.root.children[i]) =>
                       IndentedItem(OutputLines[1 + LinesBefore(prev.root.children, i)], 0)
        /\ Len(OutputLines) = EmittedLines
        /\ ret # EmptyString =>
               /\ Cardinality(Breaks(ret)) = EmittedLines - 1
               /\ ret[Len(ret)] # "\n"

\* A rendering with lines at the depths 0, 1 and 2: a text under the root
\* fragment, a node beside it, a node below that and a text below that.
C27_Witness ==
    /\ call.op = "render_aria_tree"
    /\ FragmentRoot
    /\ ~IsNodeChild(prev.root.children[1])
    /\ <<2, 2>> \in RenderedPaths
    /\ \E k \in 1..Len(OutputLines) :
           OutputLines[k] = <<" ", " ", " ", " ", "-", " ", "'", "b", "u", "t", "t", "o", "n", " ", "\"", "O", "K", "\"", " ", "[", "i", "n", "d", "e", "x", "=", "0", "]", "'">>
    /\ OutputLines[1] = <<"-", " ", "t", "e", "x", "t", ":", " ", "h", "i">>
    /\ Len(OutputLines) >= 5

(***************************************************************************)
(* Rendering nodes whose names are short, as long as the limit and longer, *)
(* in characters of one byte and of two.                                   *)
(***************************************************************************)
\* n times the character c.
Repeat(c, n) == [i \in 1..n |-> c]

Names ==
    {EmptyString,
     <<"a">>,
     <<"EACUTE">>,
     Repeat("a", NameLimit - 1),
     Repeat("a", NameLimit),
     Repeat("a", NameLimit + 1),
     Repeat("EACUTE", NameLimit \div 2),
     Repeat("EACUTE", (NameLimit \div 2) + 1),
     Append(Repeat("a", NameLimit - 1), "EACUTE"),
     Repeat("EACUTE", NameLimit),
     Repeat("EACUTE", NameLimit + 1)}

NamedNodes ==
    {[AriaNodeNew(role, name) EXCEPT !.index = index, !.disabled = disabled] :
         role \in {<<"b", "u", "t", "t", "o", "n">>, <<"l", "i", "n", "k">>},
         name \in Names,
         index \in {None, Some(0)},
         disabled \in {None, Some(TRUE)}}

NameInit ==
    /\ dom \in {DomTreeNew(WithChildren(Fragment, <<NodeChild(node)>>)) : node \in NamedNodes}
    /\ prev = dom
    /\ call = Call("new", "", << >>)
    /\ ret = None
    /\ mutations = 0

NameNext == Render

NameSpec == NameInit /\ [][NameNext]_vars

\* The name of the node rendered, between double quotes and after a space.
QuotedName == <<" ", "\"">> \o KeyNode.name \o <<"\"">>

\* C28: the name appears in the rendered key, as a space followed by the
\* quoted name, exactly when it is not empty and at most 900 characters
\* long; a name of more than 900 characters is not rendered in full.
C28_NameShownUpToLimit ==
    call.op = "render_aria_tree" =>
        /\ contains(ret, QuotedName)
               <=> (KeyNode.name # EmptyString /\ Len(KeyNode.name) <= NameLimit)
        /\ Len(KeyNode.name) > NameLimit => ~contains(ret, KeyNode.name)

\* The same with the length of the name taken in bytes of UTF-8.
C28_NameShownUpToLimitInBytes ==
    call.op = "render_aria_tree" =>
        /\ contains(ret, QuotedName)
               <=> (KeyNode.name # EmptyString /\ str_len(KeyNode.name) <= NameLimit)
        /\ str_len(KeyNode.name) > NameLimit => ~contains(ret, KeyNode.name)

(***************************************************************************)
(* A container built by the constructor and the calls that splice frames   *)
(* into it.                                                                *)
(***************************************************************************)
BuiltInit ==
    /\ dom \in Constructions
    /\ prev = dom
    /\ call = Call("new", 0, << >>)
    /\ ret = None
    /\ mutations = 0

BuiltNext ==
    \/ InjectFrame
    \/ AssembleFrames

BuiltSpec == BuiltInit /\ [][BuiltNext]_vars

\* The places of the indexed nodes of the tree whose role is "iframe".
IndexedIframes(root) ==
    {p \in Paths(root) : /\ IsSome(NodeAt(root, p).index)
                         /\ NodeAt(root, p).role = <<"i", "f", "r", "a", "m", "e">>}

\* Every index of the tree has a position in the selector table.
SelectorsCoverIndices(tree) ==
    \A p \in Paths(tree.root) :
        IsSome(NodeAt(tree.root, p).index)
            => Len(tree.selectors) >= Unwrap(NodeAt(tree.root, p).index) + 1

\* C29: in a container built by the constructor, and after any sequence of
\* inject_iframe_content / assemble_with_iframes calls on it, the selector
\* table is at least as long as the largest index of the tree plus one; and
\* the iframe-index list the constructor builds holds exactly the indices of
\* the indexed nodes whose role is "iframe", one entry for each.
C29_SelectorsCoverIndices ==
    /\ SelectorsCoverIndices(dom)
    /\ call.op = "new" =>
           /\ Range(dom.iframe_indices)
                  = {Unwrap(NodeAt(dom.root, p).index) : p \in IndexedIframes(dom.root)}
           /\ Len(dom.iframe_indices) = Cardinality(IndexedIframes(dom.root))

\* The part of C29 about the container as the constructor leaves it.
C29_AsConstructed ==
    call.op = "new" => C29_SelectorsCoverIndices

(***************************************************************************)
(* The input tool.  The page is the sequence of the values of its text     *)
(* fields; field i is the element of index i - 1, and its selector is the  *)
(* one the extractor gives that index.  In this part `dom` is the tool     *)
(* context: the page of its session and its dom_tree.                      *)
(***************************************************************************)
MaxFields == 2

\* The tree the extractor delivers for a page: a text field for each
\* value, the value as its text when it is not empty.
PageRoot(page) ==
    WithChildren(Fragment,
        [i \in 1..Len(page) |->
            NodeChild(WithChildren(
                WithIndex(AriaNodeNew(<<"t", "e", "x", "t", "b", "o", "x">>, EmptyString),
                          i - 1),
                IF page[i] = EmptyString THEN << >> ELSE <<TextChild(page[i])>>))])

\* BrowserSession::extract_dom
extract_dom(page) == from_tab("main", PageRoot(page))

\* struct ToolContext
ToolContext(session, dom_tree) == [session |-> session, dom_tree |-> dom_tree]

\* ToolContext::new
ToolContextNew(session) == ToolContext(session, None)

\* ToolContext::with_dom
with_dom(session, dom_tree) == ToolContext(session, Some(dom_tree))

\* ToolContext::get_dom: the context after the call; the tree returned is
\* the one its dom_tree holds.
get_dom(context) ==
    IF context.dom_tree = None
    THEN ToolContext(context.session, Some(extract_dom(context.session)))
    ELSE context

\* struct InputParams
InputParams(selector, index, text, clear) ==
    [selector |-> selector, index |-> index, text |-> text, clear |-> clear]

\* BrowserSession::find_element: the field the selector names, if any.
find_element(page, css_selector) ==
    IF /\ Len(css_selector) = 2
       /\ css_selector[1] = "main"
       /\ css_selector[2] + 1 \in 1..Len(page)
    THEN Some(css_selector[2] + 1)
    ELSE None

\* The value after "End" and n presses of "Backspace".
Backspaces(value, n) ==
    SubSeq(value, 1, IF n >= Len(value) THEN 0 ELSE Len(value) - n)

\* The page after the tool has cleared (when asked to) and typed into a field.
TypeInto(page, field, params) ==
    LET cleared == IF params.clear
                   THEN Backspaces(page[field], str_len(params.text) + 100)
                   ELSE page[field]
    IN  [page EXCEPT ![field] = cleared \o params.text]

ToolOk(context, snapshot) == [context |-> context, result |-> <<"Ok", snapshot>>]

ToolErr(context, error) == [context |-> context, result |-> <<"Err", error>>]

\* InputTool::execute_typed: the context after the call and the result.
execute_typed(params, context) ==
    IF IsSome(params.selector) = IsSome(params.index)
    THEN ToolErr(context, "ToolExecutionFailed")
    ELSE
    LET resolving == IF IsSome(params.selector) THEN context ELSE get_dom(context)
        css_selector == IF IsSome(params.selector) THEN params.selector
                        ELSE get_selector(Unwrap(resolving.dom_tree), Unwrap(params.index))
    IN  IF ~IsSome(css_selector) THEN ToolErr(resolving, "ElementNotFound")
        ELSE
        LET element == find_element(resolving.session, Unwrap(css_selector))
        IN  IF ~IsSome(element) THEN ToolErr(resolving, "ElementNotFound")
            ELSE
            LET typed == ToolContext(TypeInto(resolving.session, Unwrap(element), params),
                                     resolving.dom_tree)
                after == get_dom(typed)
            IN  ToolOk(after, render_aria_tree(Unwrap(after.dom_tree).root, "Ai", None))

FieldValues == {EmptyString, <<"a">>}

Pages == UNION {[1..n -> FieldValues] : n \in 1..MaxFields}

TypedTexts == {EmptyString, <<"a">>, <<"b">>}

CssSelectors == {Selector("main", i) : i \in 0..MaxFields}

InputCalls ==
    {InputParams(selector, index, text, clear) :
         selector \in {None} \cup {Some(s) : s \in CssSelectors},
         index \in {None} \cup {Some(i) : i \in 0..MaxFields},
         text \in TypedTexts,
         clear \in BOOLEAN}

\* A context of a session on some page: new, or with the page's tree.
InputInit ==
    /\ dom \in {ToolContextNew(page) : page \in Pages}
               \cup {with_dom(page, extract_dom(page)) : page \in Pages}
    /\ prev = dom
    /\ call = Call("new", << >>, << >>)
    /\ ret = None
    /\ mutations = 0

\* session.execute_tool("input", params): the tool runs in a new context.
ExecuteTool ==
    /\ mutations < MaxMutations
    /\ \E params \in InputCalls :
        LET done == execute_typed(params, ToolContextNew(dom.session))
        IN  /\ dom' = done.context
            /\ ret' = done.result
            /\ call' = Call("execute_tool", params, << >>)
    /\ prev' = dom
    /\ mutations' = mutations + 1

\* InputTool.execute_typed(params, &mut context) in the context at hand.
InputExecute ==
    /\ mutations < MaxMutations
    /\ \E params \in InputCalls :
        LET done == execute_typed(params, dom)
        IN  /\ dom' = done.context
            /\ ret' = done.result
            /\ call' = Call("execute_typed", params, << >>)
    /\ prev' = dom
    /\ mutations' = mutations + 1

InputNext ==
    \/ ExecuteTool
    \/ InputExecute

InputSpec == InputInit /\ [][InputNext]_vars

\* The input tool has typed and returned a snapshot.
Typed == call.op \in {"execute_tool", "execute_typed"} /\ ret # None /\ ret[1] = "Ok"

\* The rendering of the page as it is now.
SnapshotNow == render_aria_tree(extract_dom(dom.session).root, "Ai", None)

\* C30: the snapshot the input tool returns after typing into an element is
\* rendered from a container extracted after the typing, whether the
\* element was addressed by selector or by index.
C30_SnapshotAfterTyping == Typed => ret[2] = SnapshotNow

\* The same for the calls that address the element by selector in a context
\* that holds no tree yet.
C30_BySelectorInNewContext ==
    (Typed /\ IsSome(call.index.selector)
           /\ (call.op = "execute_tool" \/ prev.dom_tree = None))
        => ret[2] = SnapshotNow

=============================================================================
